---- MODULE Spec2Model ----
(***************************************************************************)
(* A model of the MCP protocol-client runtime sketched in the repository:  *)
(* the JSON-RPC message handler, the tool executor (argument validation,   *)
(* sanitizing, access control, dispatch), the resource content cache, the  *)
(* message batcher and the connection manager.  Each component has its own *)
(* specification (SpecCodec, SpecExec, ...); the components do not share    *)
(* state, so every property is checked under the component it is about.    *)
(***************************************************************************)
EXTENDS Integers, Sequences, FiniteSets, TLC

VARIABLES
    \* MessageHandler
    data,           \* the frame last handed to deserialize
    decodeOutcome,  \* what deserialize did with it
    \* tool executor and access controller
    cur,            \* the tool call being executed
    callsMade,      \* number of calls issued so far
    now,            \* Date.now(), in ticks
    rateLog,        \* checkRateLimit's window log per (user, tool)
    quotaUsed,      \* checkResourceQuota's counter per (user, tool)
    passed,         \* history: calls that passed the rate check, with their time
    wire,           \* history: ids of the requests handed to session.request
    \* resource reader
    contentCache,   \* QualityResourceReader.contentCache, by cache key
    rd,             \* the readResource call of each caller
    readsMade,      \* number of readResource calls so far
    readWire,       \* history: the resources/read requests sent, by uri
    lastStored,     \* history: when each uri's content was last cached
    \* MessageBatcher
    batch,          \* MessageBatcher.batch: the ids of the messages waiting
    timers,         \* the flush timers set and not yet fired, by first message
    msgsSent,       \* number of sendMessage calls so far
    batchWire,      \* history: the batch requests given to transport.send
    answered,       \* the transmissions whose response has arrived
    resolved,       \* per message, the id of the response its future got (0: none)
    issuedIn,       \* history: per message, the timers pending when it was sent
    madeIn,         \* history: per transmission, the timers pending when it was made
    fired,          \* history: the timers that have fired
    \* ConnectionManager and the session's request table
    state,              \* ConnectionManager.state
    reconnectAttempts,  \* ConnectionManager.reconnectAttempts
    queue,              \* the requests waiting for the connection to come back
    pending,            \* the ids of the requests sent and not yet answered
    call,               \* per request: the caller's future and session.request's
    issued,             \* number of requests issued so far
    connWire,           \* history: the ids of the requests sent, in order
    attemptsMade,       \* history: reconnection attempts since the connection was lost
    handshake,          \* the initialize request of the attempt in flight
    negotiated,         \* the capability set stored by the negotiation
    attemptsInFlight,   \* history: calls of establishConnection not yet settled
    \* HeartbeatManager, reconnection triggers, capability requests
    misses,             \* heartbeat probes missed in a row
    probe,              \* "idle", or "sent" while a ping awaits its response
    probeLog,           \* history: the outcomes of the latest probes
    triggersJoined,     \* history: triggers that arrived during a reconnection
    capRequests,        \* number of capability requests made
    lastCap,            \* the latest capability request and its outcome
    capWire,            \* history: the capability requests sent
    \* responses that match no pending entry
    anomalies,          \* number of protocol anomalies recorded
    lastDropped,        \* the id of the latest response dropped
    \* the ids of the requests outstanding on one session
    msClock,            \* Date.now(), in milliseconds
    handles,            \* number of intervals set so far
    running,            \* the intervals set and not cleared
    intervalId,         \* HeartbeatManager.intervalId (0: undefined)
    firedAt,            \* per interval, the millisecond of its latest callback
    idTable,            \* the ids of the outstanding requests, one per request
    requestIds,         \* number of ids made by generateRequestId
    \* QualityToolManager: tools/list with its cache
    toolsCache,         \* the cached tool list (the provider's list version) or none
    lastDiscoveryTime,  \* QualityToolManager.lastDiscoveryTime
    ls,                 \* per caller of listTools, its position and what it saw
    listVersion,        \* the version of the provider's tool list
    discWire,           \* history: the tools/list requests sent
    callsSinceSignal,   \* history: listTools calls since the latest change signal
    listCalls,          \* number of listTools calls made
    \* BatchToolExecutor
    requests,           \* the argument of executeBatch
    batchIx,            \* the batch the for loop is at
    settled,            \* ids of the requests whose executeSingle has settled
    completed,          \* history: the ids in the order in which they settled
    results,            \* executeBatch's results array
    xpc,                \* executeBatch's position
    \* sanitizers
    sanContent,         \* the string given to a sanitizer
    sanPolicy,          \* which sanitizer: of arguments, or by mime type
    sanOnce,            \* the sanitized string
    sanTwice,           \* the sanitized string, sanitized again
    \* renderPrompt / processTemplate
    tplKind,            \* "prompt" (renderPrompt) or "uri" (processTemplate)
    tplTemplate,        \* prompt.template / template.pattern
    tplParams,          \* Object.entries of the parameters, in their order
    tplRendered,        \* renderedContent / renderedUri
    tplPc,              \* "idle", "returned" or "threw"
    \* the structured-input-form extension
    panel,              \* activate's variable panel (0: null)
    panels,             \* the webview panels that exist
    panelsCreated,      \* number of createWebviewPanel calls
    commandsRun,        \* number of runs of showInputForm
    pendingCmd,         \* executeCommand calls of the trigger not yet run
    doc,                \* the lines of the active editor's document
    selection,          \* editor.selection.active
    lastText,           \* activate's variable lastText
    edits,              \* the delete edits requested and not yet applied
    keys,               \* number of characters typed
    triggerLog          \* history: what each detected trigger asked to delete

codecVars == <<data, decodeOutcome>>
execVars == <<cur, callsMade, now, rateLog, quotaUsed, passed, wire>>
cacheVars == <<contentCache, rd, readsMade, readWire, lastStored>>
batchVars == <<batch, timers, msgsSent, batchWire, answered, resolved, issuedIn,
               madeIn, fired>>
connVars == <<state, reconnectAttempts, queue, pending, call, issued, connWire,
              attemptsMade, handshake, negotiated, attemptsInFlight>>
linkVars == <<misses, probe, probeLog, triggersJoined, capRequests, lastCap, capWire>>
corrVars == <<anomalies, lastDropped>>
idVars == <<msClock, handles, running, intervalId, firedAt, idTable, requestIds>>
discVars == <<toolsCache, lastDiscoveryTime, ls, listVersion, discWire,
              callsSinceSignal, listCalls>>
xbVars == <<requests, batchIx, settled, completed, results, xpc>>
sanVars == <<sanContent, sanPolicy, sanOnce, sanTwice>>
tplVars == <<tplKind, tplTemplate, tplParams, tplRendered, tplPc>>
formVars == <<panel, panels, panelsCreated, commandsRun, pendingCmd, doc, selection,
              lastText, edits, keys, triggerLog>>
vars == <<codecVars, execVars, cacheVars, batchVars, connVars, linkVars, corrVars, idVars, discVars, xbVars, sanVars, tplVars, formVars>>

(***************************************************************************)
(* Bounds of the model.                                                    *)
(***************************************************************************)
MaxCalls == 3       \* tool calls issued in one behaviour
MaxTime == 4        \* last clock tick

Range(s) == {s[i] : i \in DOMAIN s}
SetToSeq(S) == CHOOSE s \in [1..Cardinality(S) -> S] : Range(s) = S
Count(s, x) == Cardinality({i \in DOMAIN s : s[i] = x})

(***************************************************************************)
(* MessageHandler (JSON-RPC 2.0).  A frame is described by what JSON.parse *)
(* makes of it: whether it parses at all, its jsonrpc member, its id, and  *)
(* which of method / result / error are present.                           *)
(***************************************************************************)
Frames ==
    [wellFormed : BOOLEAN,
     jsonrpc : {"2.0", "1.0", "absent"},
     id : {"1", "2", "null"},
     hasMethod : BOOLEAN,
     hasResult : BOOLEAN,
     hasError : BOOLEAN]

NoFrame ==
    [wellFormed |-> FALSE, jsonrpc |-> "absent", id |-> "null",
     hasMethod |-> FALSE, hasResult |-> FALSE, hasError |-> FALSE]

\* validateMessage throws only on the version member
validateMessage(message) ==
    IF message.jsonrpc # "2.0" THEN "InvalidVersion" ELSE "ok"

\* deserialize: JSON.parse (throws on malformed text), then validateMessage,
\* then the message is returned
deserialize(d) ==
    IF ~d.wellFormed THEN "SyntaxError"
    ELSE IF validateMessage(d) # "ok" THEN validateMessage(d)
    ELSE "envelope"

handleMessage ==
    /\ \E d \in Frames :
        /\ data' = d
        /\ decodeOutcome' = deserialize(d)
    /\ UNCHANGED <<execVars, cacheVars, batchVars, connVars, linkVars, corrVars, idVars, discVars, xbVars, sanVars, tplVars, formVars>>

InitCodec ==
    /\ data = NoFrame
    /\ decodeOutcome = "none"

NextCodec == handleMessage

(***************************************************************************)
(* Tool executor.  JavaScript values are records: t is what typeof gives,  *)
(* n the number, s the string as a sequence of characters.  An argument    *)
(* object maps every parameter name to a value; Undefined means the key is *)
(* absent.                                                                 *)
(***************************************************************************)
Num(n) == [t |-> "number", n |-> n, s |-> <<>>]
Str(s) == [t |-> "string", n |-> 0, s |-> s]
Undefined == [t |-> "undefined", n |-> 0, s |-> <<>>]

typeof(value) == value.t

ParamOrder == <<"a", "b">>
ParamNames == Range(ParamOrder)

\* the arguments a caller may pass: the documented example ("not-a-number",
\* "z"), values that fit the schema, a string holding markup characters, and
\* a missing key
ArgValues ==
    [a |-> {Num(5), Str(<<"n", "a", "n">>), Undefined},
     b |-> {Str(<<"x">>), Str(<<"z">>), Str(<<"<", "x", ">">>)}]

ArgObjects == {args \in [ParamNames -> UNION {ArgValues[p] : p \in ParamNames}] :
                 \A p \in ParamNames : args[p] \in ArgValues[p]}

NoArgs == [p \in ParamNames |-> Undefined]

ToolNames == {"t1", "t2"}
Users == {"u1", "u2"}

\* tool.inputSchema: {a: number, b: enum("x","y")}, both required
inputSchema(tool) ==
    [required |-> <<"a", "b">>,
     properties |->
        [a |-> [type |-> "number", hasEnum |-> FALSE, enum |-> {}],
         b |-> [type |-> "string", hasEnum |-> TRUE,
                enum |-> {Str(<<"x">>), Str(<<"y">>)}]]]

\* Object.entries(args): the keys present, in insertion order
entries(args) == SelectSeq(ParamOrder, LAMBDA p : args[p] # Undefined)

\* checkType(param, value, paramSchema): the type error of one parameter, if any
checkType(param, value, paramSchema) ==
    IF typeof(value) # paramSchema.type
    THEN <<[param |-> param, kind |-> "type"]>>
    ELSE <<>>

\* validateArguments(tool, args): the errors array.  First the required
\* parameters that are undefined or null, then one checkType per entry whose
\* parameter the schema declares.
validateArguments(tool, args) ==
    LET schema == inputSchema(tool)
        req == schema.required
        Missing[i \in 0..Len(req)] ==
            IF i = 0 THEN <<>>
            ELSE IF args[req[i]] = Undefined
                 THEN Append(Missing[i - 1], [param |-> req[i], kind |-> "required"])
                 ELSE Missing[i - 1]
        ent == entries(args)
        Typed[i \in 0..Len(ent)] ==
            IF i = 0 THEN <<>>
            ELSE IF ent[i] \in DOMAIN schema.properties
                 THEN Typed[i - 1] \o checkType(ent[i], args[ent[i]], schema.properties[ent[i]])
                 ELSE Typed[i - 1]
    IN  Missing[Len(req)] \o Typed[Len(ent)]

\* sanitizeString: value.replace(/[<>\"\']/g, '')
DisallowedChars == {"<", ">", "\"", "'"}
sanitizeString(value) ==
    Str(SelectSeq(value.s, LAMBDA ch : ch \notin DisallowedChars))

\* sanitizeValue: by the schema's type; a number that passed validation is
\* left as it is
sanitizeValue(value, schema) ==
    IF schema.type = "string" THEN sanitizeString(value) ELSE value

\* sanitizeArguments: keeps the keys the schema declares, each sanitized
sanitizeArguments(args, tool) ==
    LET schema == inputSchema(tool)
    IN  [p \in ParamNames |->
            IF args[p] # Undefined /\ p \in DOMAIN schema.properties
            THEN sanitizeValue(args[p], schema.properties[p])
            ELSE Undefined]

(***************************************************************************)
(* ToolAccessController.                                                   *)
(***************************************************************************)
RateLimit == 2      \* calls per window of one (user, tool) pair
RateWindow == 2     \* length of the sliding window, in ticks
QuotaLimit == 2     \* calls per quota period of one (user, tool) pair
QuotaPeriod == 4    \* the quota counters reset every QuotaPeriod ticks

Pairs == Users \X ToolNames

\* permissionMap.get(toolName) || []
permissionMap(toolName) == IF toolName = "t1" THEN <<"exec">> ELSE <<>>

getUserPermissions(userId) == IF userId = "u1" THEN {"exec"} ELSE {}

\* checkToolAccess: no required permission means access; otherwise the user
\* must hold every required permission
checkToolAccess(toolName, userId) ==
    LET requiredPermissions == permissionMap(toolName)
    IN  IF Len(requiredPermissions) = 0 THEN TRUE
        ELSE \A i \in DOMAIN requiredPermissions :
                requiredPermissions[i] \in getUserPermissions(userId)

\* the part of a window log that is still inside the window at time t
InWindow(log, t) == SelectSeq(log, LAMBDA x : t - x < RateWindow)

\* checkRateLimit: true when the pair already made RateLimit calls in the
\* window ending now
checkRateLimit(toolName, userId) ==
    Len(InWindow(rateLog[<<userId, toolName>>], now)) >= RateLimit

\* the window log after a call that passed the rate check
recordCall(toolName, userId) ==
    [rateLog EXCEPT ![<<userId, toolName>>] = Append(InWindow(@, now), now)]

\* checkResourceQuota: true while the pair's counter is below the limit
checkResourceQuota(toolName, userId) ==
    quotaUsed[<<userId, toolName>>] < QuotaLimit

consumeQuota(toolName, userId) ==
    [quotaUsed EXCEPT ![<<userId, toolName>>] = @ + 1]

\* validateToolExecution with the quota check moved before the rate check
validateToolExecution_quotaFirst(toolName, userId) ==
    IF ~checkToolAccess(toolName, userId)
    THEN [error |-> "PermissionDenied", rateLog |-> rateLog, quotaUsed |-> quotaUsed]
    ELSE IF ~checkResourceQuota(toolName, userId)
    THEN [error |-> "QuotaExceeded", rateLog |-> rateLog, quotaUsed |-> quotaUsed]
    ELSE IF checkRateLimit(toolName, userId)
    THEN [error |-> "RateLimited", rateLog |-> rateLog,
          quotaUsed |-> consumeQuota(toolName, userId)]
    ELSE [error |-> "none", rateLog |-> recordCall(toolName, userId),
          quotaUsed |-> consumeQuota(toolName, userId)]

\* validateToolExecution without the rate-limit check
validateToolExecution_noRateCheck(toolName, userId) ==
    IF ~checkToolAccess(toolName, userId)
    THEN [error |-> "PermissionDenied", rateLog |-> rateLog, quotaUsed |-> quotaUsed]
    ELSE IF ~checkResourceQuota(toolName, userId)
    THEN [error |-> "QuotaExceeded", rateLog |-> recordCall(toolName, userId),
          quotaUsed |-> quotaUsed]
    ELSE [error |-> "none", rateLog |-> recordCall(toolName, userId),
          quotaUsed |-> consumeQuota(toolName, userId)]

\* validateToolExecution: permission, then rate limit, then quota; the first
\* failing check throws.  The result is the error thrown ("none" when all
\* three passed) and the counters as the checks that ran left them.
validateToolExecution(toolName, userId) ==
    IF ~checkToolAccess(toolName, userId)
    THEN [error |-> "PermissionDenied", rateLog |-> rateLog, quotaUsed |-> quotaUsed]
    ELSE IF checkRateLimit(toolName, userId)
    THEN [error |-> "RateLimited", rateLog |-> rateLog, quotaUsed |-> quotaUsed]
    ELSE IF ~checkResourceQuota(toolName, userId)
    THEN [error |-> "QuotaExceeded", rateLog |-> recordCall(toolName, userId),
          quotaUsed |-> quotaUsed]
    ELSE [error |-> "none", rateLog |-> recordCall(toolName, userId),
          quotaUsed |-> consumeQuota(toolName, userId)]

(***************************************************************************)
(* One tool call, from callTool's entry to its result.  cur.pc is the      *)
(* position of the call: "define" (awaiting getToolDefinition), "access",  *)
(* "dispatch", "awaiting" (the request is with the session), "done".       *)
(***************************************************************************)
NoCall ==
    [id |-> 0, tool |-> "t1", args |-> NoArgs, user |-> "u1", pc |-> "idle",
     valid |-> "unknown", errors |-> <<>>, access |-> "unchecked",
     seen |-> -1, at |-> -1, outcome |-> "none", wired |-> 0, repeat |-> FALSE,
     request |-> [id |-> 0, method |-> "none", name |-> "t1", arguments |-> NoArgs]]

\* the calls of a pair that passed the rate check inside the window ending at t
PassedInWindow(pair, t) ==
    {i \in DOMAIN passed : passed[i].pair = pair /\ t - passed[i].at < RateWindow}

\* callTool(name, args) is entered by a user
callTool ==
    /\ cur.pc \in {"idle", "done"}
    /\ callsMade < MaxCalls
    /\ \E name \in ToolNames, args \in ArgObjects, user \in Users :
        cur' = [NoCall EXCEPT !.id = callsMade + 1, !.tool = name, !.args = args,
                              !.user = user, !.pc = "define",
                              !.repeat = /\ cur.outcome = "Success"
                                         /\ cur.tool = name
                                         /\ cur.args = args
                                         /\ cur.user = user]
    /\ callsMade' = callsMade + 1
    /\ UNCHANGED <<now, rateLog, quotaUsed, passed, wire>>

\* callTool_validate without the throw: an invalid call goes on
callTool_validate_noThrow ==
    /\ cur.pc = "define"
    /\ LET errors == validateArguments(cur.tool, cur.args)
       IN  cur' = IF Len(errors) = 0
                  THEN [cur EXCEPT !.valid = "valid", !.pc = "access"]
                  ELSE [cur EXCEPT !.valid = "invalid", !.errors = errors,
                                   !.pc = "access"]
    /\ UNCHANGED <<callsMade, now, rateLog, quotaUsed, passed, wire>>

\* step 2 of callTool: validateArguments, and ValidationError(errors) when
\* the result is not valid
callTool_validate ==
    /\ cur.pc = "define"
    /\ LET errors == validateArguments(cur.tool, cur.args)
       IN  cur' = IF Len(errors) = 0
                  THEN [cur EXCEPT !.valid = "valid", !.pc = "access"]
                  ELSE [cur EXCEPT !.valid = "invalid", !.errors = errors,
                                   !.outcome = "ValidationError", !.pc = "done"]
    /\ UNCHANGED <<callsMade, now, rateLog, quotaUsed, passed, wire>>

\* the access step of a call: validateToolExecution(toolName, args, context)
call_access ==
    /\ cur.pc = "access"
    /\ LET r == validateToolExecution(cur.tool, cur.user)
           pair == <<cur.user, cur.tool>>
           ranRate == r.error \notin {"PermissionDenied", "RateLimited"}
       IN  /\ cur' = IF r.error = "none"
                     THEN [cur EXCEPT !.access = "granted", !.pc = "dispatch",
                                      !.seen = Cardinality(PassedInWindow(pair, now)),
                                      !.at = now]
                     ELSE [cur EXCEPT !.access = r.error, !.outcome = r.error,
                                      !.pc = "done",
                                      !.seen = Cardinality(PassedInWindow(pair, now)),
                                      !.at = now]
           /\ rateLog' = r.rateLog
           /\ quotaUsed' = r.quotaUsed
           /\ passed' = IF ranRate
                        THEN Append(passed, [pair |-> pair, at |-> now])
                        ELSE passed
    /\ UNCHANGED <<callsMade, now, wire>>

\* callTool_request that answers a repeated call from the call before it
callTool_request_cached ==
    /\ cur.pc = "dispatch"
    /\ LET request == [id |-> cur.id, method |-> "tools/call", name |-> cur.tool,
                       arguments |-> sanitizeArguments(cur.args, cur.tool)]
       IN  IF cur.repeat
           THEN /\ cur' = [cur EXCEPT !.pc = "done", !.outcome = "Success"]
                /\ UNCHANGED wire
           ELSE /\ wire' = Append(wire, request.id)
                /\ cur' = [cur EXCEPT !.pc = "awaiting", !.wired = @ + 1,
                                      !.request = request]
    /\ UNCHANGED <<callsMade, now, rateLog, quotaUsed, passed>>

\* steps 3 and 4 of callTool: the request is built, with the arguments
\* sanitized, and handed to session.request
callTool_request ==
    /\ cur.pc = "dispatch"
    /\ LET request == [id |-> cur.id, method |-> "tools/call", name |-> cur.tool,
                       arguments |-> sanitizeArguments(cur.args, cur.tool)]
       IN  /\ wire' = Append(wire, request.id)
           /\ cur' = [cur EXCEPT !.pc = "awaiting", !.wired = @ + 1,
                                 !.request = request]
    /\ UNCHANGED <<callsMade, now, rateLog, quotaUsed, passed>>

\* callTool_settle that sends the request again when the timeout wins
callTool_settle_retries ==
    /\ cur.pc = "awaiting"
    /\ \E result \in {"Success", "Timeout", "ExecutionFailed"} :
        IF result = "Timeout" /\ cur.wired < 2
        THEN /\ wire' = Append(wire, cur.request.id)
             /\ cur' = [cur EXCEPT !.wired = @ + 1]
        ELSE /\ cur' = [cur EXCEPT !.pc = "done", !.outcome = result]
             /\ UNCHANGED wire
    /\ UNCHANGED <<callsMade, now, rateLog, quotaUsed, passed>>

\* the race of session.request and the timeout promise settles
callTool_settle ==
    /\ cur.pc = "awaiting"
    /\ \E result \in {"Success", "Timeout", "ExecutionFailed"} :
        cur' = [cur EXCEPT !.pc = "done", !.outcome = result]
    /\ UNCHANGED <<callsMade, now, rateLog, quotaUsed, passed, wire>>

\* the clock advances: the quota counters reset on the period boundary and
\* the calls that left every window are dropped from the window logs
Tick ==
    /\ now < MaxTime
    /\ now' = now + 1
    /\ quotaUsed' = IF (now + 1) % QuotaPeriod = 0
                    THEN [p \in Pairs |-> 0]
                    ELSE quotaUsed
    /\ rateLog' = [p \in Pairs |-> InWindow(rateLog[p], now + 1)]
    /\ passed' = SelectSeq(passed, LAMBDA e : (now + 1) - e.at < RateWindow)
    /\ UNCHANGED <<cur, callsMade, wire>>

InitExec ==
    /\ cur = NoCall
    /\ callsMade = 0
    /\ now = 0
    /\ rateLog = [p \in Pairs |-> <<>>]
    /\ quotaUsed = [p \in Pairs |-> 0]
    /\ passed = <<>>
    /\ wire = <<>>

NextExec ==
    \/ (callTool /\ UNCHANGED <<codecVars, cacheVars, batchVars, connVars, linkVars, corrVars, idVars, discVars, xbVars, sanVars, tplVars, formVars>>)
    \/ (callTool_validate /\ UNCHANGED <<codecVars, cacheVars, batchVars, connVars, linkVars, corrVars, idVars, discVars, xbVars, sanVars, tplVars, formVars>>)
    \/ (call_access /\ UNCHANGED <<codecVars, cacheVars, batchVars, connVars, linkVars, corrVars, idVars, discVars, xbVars, sanVars, tplVars, formVars>>)
    \/ (callTool_request /\ UNCHANGED <<codecVars, cacheVars, batchVars, connVars, linkVars, corrVars, idVars, discVars, xbVars, sanVars, tplVars, formVars>>)
    \/ (callTool_settle /\ UNCHANGED <<codecVars, cacheVars, batchVars, connVars, linkVars, corrVars, idVars, discVars, xbVars, sanVars, tplVars, formVars>>)
    \/ (Tick /\ UNCHANGED <<codecVars, cacheVars, batchVars, connVars, linkVars, corrVars, idVars, discVars, xbVars, sanVars, tplVars, formVars>>)


(***************************************************************************)
(* QualityResourceReader: readResource with its content cache.  Time is    *)
(* the clock of the access controller (now, Tick).                         *)
(***************************************************************************)
MaxReads == 3       \* readResource calls in one behaviour
TTL == 2            \* getContentCacheTTL(uri), in ticks

Uris == {"r1", "r2"}
Readers == {1, 2}

\* generateCacheKey('read', uri)
generateCacheKey(kind, uri) == <<kind, uri>>
CacheKeys == {generateCacheKey("read", u) : u \in Uris}

NoEntry == [present |-> FALSE, content |-> 0, timestamp |-> 0, ttl |-> 0]

\* isCacheExpired with every entry taken as fresh
isCacheExpired_never(cached) == FALSE

\* isCacheExpired: Date.now() - cached.timestamp > cached.ttl
isCacheExpired(cached) == now - cached.timestamp > cached.ttl

NoRead ==
    [pc |-> "idle", uri |-> "r1", hit |-> FALSE, at |-> -1, storedAt |-> -1,
     result |-> 0, wired |-> 0]

\* readResource(uri) up to its first await: the cache is looked up, and a
\* cached content that is not expired is returned; otherwise the request
\* resources/read is sent
readResource(c) ==
    /\ rd[c].pc \in {"idle", "done"}
    /\ readsMade < MaxReads
    /\ readsMade' = readsMade + 1
    /\ \E uri \in Uris :
        LET cacheKey == generateCacheKey("read", uri)
            cachedContent == contentCache[cacheKey]
            read == [NoRead EXCEPT !.uri = uri, !.at = now,
                                   !.storedAt = lastStored[uri]]
        IN  IF cachedContent.present /\ ~isCacheExpired(cachedContent)
            THEN /\ rd' = [rd EXCEPT ![c] =
                        [read EXCEPT !.pc = "done", !.hit = TRUE,
                                     !.result = cachedContent.content]]
                 /\ UNCHANGED readWire
            ELSE /\ rd' = [rd EXCEPT ![c] =
                        [read EXCEPT !.pc = "awaiting", !.wired = 1]]
                 /\ readWire' = Append(readWire, uri)
    /\ UNCHANGED <<contentCache, lastStored>>

\* the response of resources/read arrives and is valid: the content is
\* cached with its TTL and returned
readResource_response(c) ==
    /\ rd[c].pc = "awaiting"
    /\ LET content == Len(readWire)
           cacheKey == generateCacheKey("read", rd[c].uri)
       IN  /\ contentCache' = [contentCache EXCEPT ![cacheKey] =
                  [present |-> TRUE, content |-> content, timestamp |-> now,
                   ttl |-> TTL]]
           /\ rd' = [rd EXCEPT ![c].pc = "done", ![c].result = content]
    /\ lastStored' = [lastStored EXCEPT ![rd[c].uri] = now]
    /\ UNCHANGED <<readsMade, readWire>>

\* readResource_error that caches what the failed request left
readResource_error_caches(c) ==
    /\ rd[c].pc = "awaiting"
    /\ rd' = [rd EXCEPT ![c].pc = "done", ![c].result = -1]
    /\ contentCache' = [contentCache EXCEPT ![generateCacheKey("read", rd[c].uri)] =
           [present |-> TRUE, content |-> -1, timestamp |-> now, ttl |-> TTL]]
    /\ UNCHANGED <<readsMade, readWire, lastStored>>

\* session.request throws, or the response is not valid: handleReadError
readResource_error(c) ==
    /\ rd[c].pc = "awaiting"
    /\ rd' = [rd EXCEPT ![c].pc = "done", ![c].result = -1]
    /\ UNCHANGED <<contentCache, readsMade, readWire, lastStored>>

InitCache ==
    /\ contentCache = [k \in CacheKeys |-> NoEntry]
    /\ rd = [c \in Readers |-> NoRead]
    /\ readsMade = 0
    /\ readWire = <<>>
    /\ lastStored = [u \in Uris |-> -1]

NextCache ==
    \/ \E c \in Readers : readResource(c) /\ UNCHANGED <<codecVars, execVars, batchVars, connVars, linkVars, corrVars, idVars, discVars, xbVars, sanVars, tplVars, formVars>>
    \/ \E c \in Readers : readResource_response(c) /\ UNCHANGED <<codecVars, execVars, batchVars, connVars, linkVars, corrVars, idVars, discVars, xbVars, sanVars, tplVars, formVars>>
    \/ \E c \in Readers : readResource_error(c) /\ UNCHANGED <<codecVars, execVars, batchVars, connVars, linkVars, corrVars, idVars, discVars, xbVars, sanVars, tplVars, formVars>>
    \/ (Tick /\ UNCHANGED <<codecVars, cacheVars, batchVars, connVars, linkVars, corrVars, idVars, discVars, xbVars, sanVars, tplVars, formVars>>)


(***************************************************************************)
(* MessageBatcher.  Messages are numbered in the order of the sendMessage  *)
(* calls.  A flush timer may fire at any moment after it was set: the      *)
(* calls made before it fires are the calls of its coalescing window.      *)
(***************************************************************************)
batchSize == 10
MaxMsgs == 11       \* sendMessage calls in one behaviour

Msgs == 1..MaxMsgs

\* flushBatch up to its await: the batch request is created from the batch,
\* the batch is emptied, and the request is given to transport.send
flushBatch(b, armed) ==
    /\ batchWire' = Append(batchWire, b)
    /\ madeIn' = Append(madeIn, armed)
    /\ batch' = <<>>

\* sendMessage(message): push; flush when the batch is full; set the flush
\* timer when the message is the first of its batch
sendMessage ==
    /\ msgsSent < MaxMsgs
    /\ LET m == msgsSent + 1
           pushed == Append(batch, m)
           timersAfter == IF Len(pushed) < batchSize /\ Len(pushed) = 1
                          THEN timers \cup {m} ELSE timers
       IN  /\ msgsSent' = m
           /\ timers' = timersAfter
           /\ issuedIn' = [issuedIn EXCEPT ![m] = timersAfter]
           /\ IF Len(pushed) >= batchSize
              THEN flushBatch(pushed, timersAfter)
              ELSE /\ batch' = pushed
                   /\ UNCHANGED <<batchWire, madeIn>>
    /\ UNCHANGED <<answered, resolved, fired>>

\* the callback of setTimeout: flushBatch()
timerFires(w) ==
    /\ w \in timers
    /\ timers' = timers \ {w}
    /\ fired' = fired \cup {w}
    /\ flushBatch(batch, timers)
    /\ UNCHANGED <<msgsSent, answered, resolved, issuedIn>>

Reverse(q) == [i \in 1..Len(q) |-> q[Len(q) + 1 - i]]
Rotate(q) == IF q = <<>> THEN q ELSE Append(Tail(q), Head(q))

\* the orders in which the provider may list the sub-responses of a batch
Orders(q) == {q, Reverse(q), Rotate(q)}

\* processBatchResponse: every sub-response goes to the future of the
\* message that bears its id
processBatchResponse(response) ==
    [m \in Msgs |->
        IF \E j \in DOMAIN response : response[j] = m
        THEN CHOOSE r \in Range(response) : r = m
        ELSE resolved[m]]

\* transport.send resolves with the response of transmission i
batchResponse(i) ==
    /\ i \in DOMAIN batchWire
    /\ i \notin answered
    /\ answered' = answered \cup {i}
    /\ \E response \in Orders(batchWire[i]) :
        resolved' = processBatchResponse(response)
    /\ UNCHANGED <<batch, timers, msgsSent, batchWire, issuedIn, madeIn, fired>>

InitBatch ==
    /\ batch = <<>>
    /\ timers = {}
    /\ msgsSent = 0
    /\ batchWire = <<>>
    /\ answered = {}
    /\ resolved = [m \in Msgs |-> 0]
    /\ issuedIn = [m \in Msgs |-> {}]
    /\ madeIn = <<>>
    /\ fired = {}

NextBatch ==
    \/ (sendMessage /\ UNCHANGED <<codecVars, execVars, cacheVars, connVars, linkVars, corrVars, idVars, discVars, xbVars, sanVars, tplVars, formVars>>)
    \/ \E w \in Msgs : timerFires(w) /\ UNCHANGED <<codecVars, execVars, cacheVars, connVars, linkVars, corrVars, idVars, discVars, xbVars, sanVars, tplVars, formVars>>
    \/ \E i \in 1..(2 * MaxMsgs) : batchResponse(i) /\ UNCHANGED <<codecVars, execVars, cacheVars, connVars, linkVars, corrVars, idVars, discVars, xbVars, sanVars, tplVars, formVars>>


(***************************************************************************)
(* ConnectionManager, with the session's table of pending requests and the *)
(* outgoing queue.  Ready is the code's CONNECTED; Degraded is the time    *)
(* between the loss of the connection and the end of the reconnection      *)
(* (RECONNECTING, and CONNECTING during a reconnection attempt); Closed is *)
(* the code's ERROR.                                                       *)
(***************************************************************************)
maxReconnectAttempts == 5
MaxReqs == 3        \* requests issued in one behaviour
QueueBound == 2     \* capacity of the outgoing queue

Reqs == 1..MaxReqs

\* the capability kinds, the set the client declares in initialize and the
\* sets a provider may answer with
Capabilities == {"tools", "resources", "prompts"}
Desired == {"tools", "resources"}
ProviderSets == {Capabilities, {"tools", "prompts"}}

ConnectionState ==
    {"DISCONNECTED", "CONNECTING", "CONNECTED", "ERROR", "RECONNECTING"}

Ready == state = "CONNECTED"
Degraded ==
    \/ state = "RECONNECTING"
    \/ state = "CONNECTING" /\ reconnectAttempts > 0
Closed == state = "ERROR"

NoRequest ==
    [pc |-> "none", outcome |-> "none", settles |-> 0,
     req |-> "none", reqOutcome |-> "none", whenReady |-> FALSE]

\* Promise.race with a promise that settles again after the first settlement
raceSettle_again(c, outcome) ==
    [c EXCEPT !.pc = "done", !.outcome = outcome, !.settles = @ + 1]

\* Promise.race: the first promise to settle settles the caller's future;
\* what settles later is ignored
raceSettle(c, outcome) ==
    IF c.pc = "awaiting"
    THEN [c EXCEPT !.pc = "done", !.outcome = outcome, !.settles = @ + 1]
    ELSE c

\* the promise of session.request settles, and with it the race
requestSettle(c, outcome) ==
    IF c.req \in {"queued", "pending"}
    THEN raceSettle([c EXCEPT !.req = "settled", !.reqOutcome = outcome], outcome)
    ELSE c

\* the promises of all requests in S settle with one outcome
settleAll(S, outcome) ==
    [r \in Reqs |-> IF r \in S THEN requestSettle(call[r], outcome) ELSE call[r]]

\* the queue is given to the wire in the order of its entries
flushQueue == connWire \o queue

\* handleConnectionError with no limit on the attempts
handleConnectionError_unbounded ==
    /\ reconnectAttempts' = IF reconnectAttempts < maxReconnectAttempts
                            THEN reconnectAttempts + 1 ELSE reconnectAttempts
    /\ state' = "RECONNECTING"
    /\ UNCHANGED <<queue, pending, call>>

\* handleConnectionError: while attempts remain, one more reconnection is
\* scheduled; when the budget is used up the connection is closed and every
\* queued and every pending request fails with ConnectionLost
handleConnectionError ==
    IF reconnectAttempts < maxReconnectAttempts
    THEN /\ reconnectAttempts' = reconnectAttempts + 1
         /\ state' = "RECONNECTING"
         /\ UNCHANGED <<queue, pending, call>>
    ELSE /\ state' = "ERROR"
         /\ call' = settleAll(Range(queue) \cup pending, "ConnectionLost")
         /\ queue' = <<>>
         /\ pending' = {}
         /\ UNCHANGED reconnectAttempts

\* connect(config), first statement: the state is set to CONNECTING whatever
\* it was, and a new channel is being established
connectCall ==
    /\ state' = "CONNECTING"
    /\ handshake' = "none"
    /\ attemptsInFlight' = attemptsInFlight + 1
    /\ attemptsMade' = 0
    /\ UNCHANGED <<reconnectAttempts, queue, pending, call, issued, connWire,
                   negotiated>>

\* connect(config), first statement, called by the user of a new manager
connect ==
    /\ state = "DISCONNECTED"
    /\ connectCall

\* connect(config), first statement, called when the backoff delay of a
\* scheduled reconnection has passed
reconnect ==
    /\ state = "RECONNECTING"
    /\ state' = "CONNECTING"
    /\ attemptsMade' = attemptsMade + 1
    /\ handshake' = "none"
    /\ attemptsInFlight' = attemptsInFlight + 1
    /\ UNCHANGED <<reconnectAttempts, queue, pending, call, issued, connWire,
                   negotiated>>

\* negotiate that gives the queue to the wire as soon as the channel is open
negotiate_flushes ==
    /\ state = "CONNECTING"
    /\ handshake = "none"
    /\ handshake' = "sent"
    /\ connWire' = flushQueue
    /\ call' = [r \in Reqs |->
                  IF r \in Range(queue) THEN [call[r] EXCEPT !.req = "pending"]
                  ELSE call[r]]
    /\ pending' = pending \cup Range(queue)
    /\ queue' = <<>>
    /\ UNCHANGED <<state, reconnectAttempts, issued, attemptsMade, negotiated,
                   attemptsInFlight>>

\* ProtocolNegotiator.negotiate: the channel is open and the initialize
\* request is sent
negotiate ==
    /\ state = "CONNECTING"
    /\ handshake = "none"
    /\ handshake' = "sent"
    /\ UNCHANGED <<state, reconnectAttempts, queue, pending, call, issued,
                   connWire, attemptsMade, negotiated, attemptsInFlight>>

\* negotiate_failed that hands the failure to handleConnectionError
negotiate_failed_retried ==
    /\ state = "CONNECTING"
    /\ handshake = "sent"
    /\ handshake' = "rejected"
    /\ attemptsInFlight' = attemptsInFlight - 1
    /\ handleConnectionError
    /\ UNCHANGED <<issued, connWire, attemptsMade, negotiated>>

\* the provider rejects the handshake (unsupported protocol version): the
\* failure is fatal, the connection is closed and what was waiting fails
negotiate_failed ==
    /\ state = "CONNECTING"
    /\ handshake = "sent"
    /\ handshake' = "rejected"
    /\ attemptsInFlight' = attemptsInFlight - 1
    /\ state' = "ERROR"
    /\ call' = settleAll(Range(queue) \cup pending, "ConnectionLost")
    /\ queue' = <<>>
    /\ pending' = {}
    /\ UNCHANGED <<reconnectAttempts, issued, connWire, attemptsMade, negotiated>>

\* resume that sends the requests in flight on the lost transport again
resume_replays ==
    /\ connWire' = connWire \o SetToSeq(pending) \o queue
    /\ call' = [r \in Reqs |->
                  IF r \in Range(queue) THEN [call[r] EXCEPT !.req = "pending"]
                  ELSE call[r]]
    /\ pending' = pending \cup Range(queue)
    /\ queue' = <<>>

\* the connection is Ready again: the requests that were in flight on the
\* lost transport fail with ConnectionLost (they are not sent again) and the
\* queue is flushed to the wire
resume ==
    /\ connWire' = flushQueue
    /\ call' = [r \in Reqs |->
                  IF r \in pending THEN requestSettle(call[r], "ConnectionLost")
                  ELSE IF r \in Range(queue) THEN [call[r] EXCEPT !.req = "pending"]
                  ELSE call[r]]
    /\ pending' = Range(queue)
    /\ queue' = <<>>

\* connect_established that leaves the queue as it is
connect_established_noFlush(provided) ==
    /\ state = "CONNECTING"
    /\ handshake = "sent"
    /\ handshake' = "accepted"
    /\ negotiated' = Desired \cap provided
    /\ attemptsInFlight' = attemptsInFlight - 1
    /\ state' = "CONNECTED"
    /\ reconnectAttempts' = 0
    /\ UNCHANGED <<queue, pending, call, connWire, issued, attemptsMade>>

\* connect(config): establishConnection resolved, the provider having
\* accepted the handshake with its capability set; the intersection with the
\* declared set is stored, the state is CONNECTED and the attempts are reset
connect_established(provided) ==
    /\ state = "CONNECTING"
    /\ handshake = "sent"
    /\ handshake' = "accepted"
    /\ negotiated' = Desired \cap provided
    /\ attemptsInFlight' = attemptsInFlight - 1
    /\ state' = "CONNECTED"
    /\ reconnectAttempts' = 0
    /\ resume
    /\ UNCHANGED <<issued, attemptsMade>>

\* connect_failed that schedules the next attempt whatever the count
connect_failed_unbounded ==
    /\ state = "CONNECTING"
    /\ attemptsInFlight' = attemptsInFlight - 1
    /\ handleConnectionError_unbounded
    /\ UNCHANGED <<issued, connWire, attemptsMade, handshake, negotiated>>

\* connect(config): establishConnection threw
connect_failed ==
    /\ state = "CONNECTING"
    /\ attemptsInFlight' = attemptsInFlight - 1
    /\ handleConnectionError
    /\ UNCHANGED <<issued, connWire, attemptsMade, handshake, negotiated>>

\* transportError that fails the requests in flight at once
transportError_failsPending ==
    /\ state = "CONNECTED"
    /\ reconnectAttempts' = reconnectAttempts + 1
    /\ state' = "RECONNECTING"
    /\ call' = settleAll(pending, "ConnectionLost")
    /\ pending' = {}
    /\ attemptsMade' = 0
    /\ UNCHANGED <<queue, issued, connWire, handshake, negotiated, attemptsInFlight>>

\* the transport of a Ready connection fails
transportError ==
    /\ state = "CONNECTED"
    /\ handleConnectionError
    /\ attemptsMade' = 0
    /\ UNCHANGED <<issued, connWire, handshake, negotiated, attemptsInFlight>>

\* dispatch that queues on a Degraded connection whatever the queue holds
dispatch_unbounded ==
    /\ issued < MaxReqs
    /\ issued' = issued + 1
    /\ LET r == issued + 1
           c == [NoRequest EXCEPT !.pc = "awaiting", !.whenReady = Ready]
       IN  IF Ready
           THEN /\ connWire' = Append(connWire, r)
                /\ pending' = pending \cup {r}
                /\ call' = [call EXCEPT ![r] = [c EXCEPT !.req = "pending"]]
                /\ UNCHANGED queue
           ELSE IF Degraded
           THEN /\ queue' = Append(queue, r)
                /\ call' = [call EXCEPT ![r] = [c EXCEPT !.req = "queued"]]
                /\ UNCHANGED <<connWire, pending>>
           ELSE /\ call' = [call EXCEPT ![r] =
                              requestSettle([c EXCEPT !.req = "queued"], "NotConnected")]
                /\ UNCHANGED <<connWire, pending, queue>>
    /\ UNCHANGED <<state, reconnectAttempts, attemptsMade, handshake, negotiated,
                   attemptsInFlight>>

\* callTool, step 4: session.request(request) raced with the timeout promise.
\* session.request sends at once on a Ready connection; on a Degraded one it
\* queues the request, or rejects it with Overloaded when the queue is full;
\* without a connection it rejects.
dispatch ==
    /\ issued < MaxReqs
    /\ issued' = issued + 1
    /\ LET r == issued + 1
           c == [NoRequest EXCEPT !.pc = "awaiting", !.whenReady = Ready]
       IN  IF Ready
           THEN /\ connWire' = Append(connWire, r)
                /\ pending' = pending \cup {r}
                /\ call' = [call EXCEPT ![r] = [c EXCEPT !.req = "pending"]]
                /\ UNCHANGED queue
           ELSE IF Degraded /\ Len(queue) < QueueBound
           THEN /\ queue' = Append(queue, r)
                /\ call' = [call EXCEPT ![r] = [c EXCEPT !.req = "queued"]]
                /\ UNCHANGED <<connWire, pending>>
           ELSE /\ call' = [call EXCEPT ![r] =
                              requestSettle([c EXCEPT !.req = "queued"],
                                  IF Degraded THEN "Overloaded" ELSE "NotConnected")]
                /\ UNCHANGED <<connWire, pending, queue>>
    /\ UNCHANGED <<state, reconnectAttempts, attemptsMade, handshake, negotiated,
                   attemptsInFlight>>

\* a response arrives on the live transport and matches a pending entry
response(r) ==
    /\ state = "CONNECTED"
    /\ r \in pending
    /\ pending' = pending \ {r}
    /\ \E result \in {"Success", "ErrorResponse"} :
        call' = [call EXCEPT ![r] = requestSettle(@, result)]
    /\ UNCHANGED <<state, reconnectAttempts, queue, issued, connWire, attemptsMade,
                   handshake, negotiated, attemptsInFlight>>

\* deadline that resolves the request and leaves its entry in the table
deadline_keepsEntry(r) ==
    /\ r \in pending
    /\ call[r].req = "pending"
    /\ call' = [call EXCEPT ![r] = requestSettle(@, "Timeout")]
    /\ UNCHANGED <<state, reconnectAttempts, queue, pending, issued, connWire,
                   attemptsMade, handshake, negotiated, attemptsInFlight>>

\* the deadline of a pending entry passes: the entry is removed and the
\* request fails with TimeoutError
deadline(r) ==
    /\ r \in pending
    /\ pending' = pending \ {r}
    /\ call' = [call EXCEPT ![r] = requestSettle(@, "Timeout")]
    /\ UNCHANGED <<state, reconnectAttempts, queue, issued, connWire, attemptsMade,
                   handshake, negotiated, attemptsInFlight>>

\* the timer of createTimeoutPromise fires and its promise rejects (a timer
\* that fires after the race is settled changes nothing)
timeoutFires(r) ==
    /\ call[r].pc = "awaiting"
    /\ call' = [call EXCEPT ![r] = raceSettle(@, "Timeout")]
    /\ UNCHANGED <<state, reconnectAttempts, queue, pending, issued, connWire,
                   attemptsMade, handshake, negotiated, attemptsInFlight>>

\* cancel that abandons every request outstanding with the cancelled one
cancel_siblings(r) ==
    /\ call[r].req \in {"queued", "pending"}
    /\ pending' = {}
    /\ queue' = <<>>
    /\ call' = settleAll(Range(queue) \cup pending, "Cancelled")
    /\ UNCHANGED <<state, reconnectAttempts, issued, connWire, attemptsMade,
                   handshake, negotiated, attemptsInFlight>>

\* the caller cancels an outstanding request: it leaves the queue or the
\* table and fails with Cancelled
cancel(r) ==
    /\ call[r].req \in {"queued", "pending"}
    /\ pending' = pending \ {r}
    /\ queue' = SelectSeq(queue, LAMBDA x : x # r)
    /\ call' = [call EXCEPT ![r] = requestSettle(@, "Cancelled")]
    /\ UNCHANGED <<state, reconnectAttempts, issued, connWire, attemptsMade,
                   handshake, negotiated, attemptsInFlight>>

InitConn ==
    /\ state = "DISCONNECTED"
    /\ reconnectAttempts = 0
    /\ queue = <<>>
    /\ pending = {}
    /\ call = [r \in Reqs |-> NoRequest]
    /\ issued = 0
    /\ connWire = <<>>
    /\ attemptsMade = 0
    /\ handshake = "none"
    /\ negotiated = {}
    /\ attemptsInFlight = 0

otherVars == <<codecVars, execVars, cacheVars, batchVars, linkVars, corrVars, idVars, discVars, xbVars, sanVars, tplVars, formVars>>

NextConn ==
    \/ (connect /\ UNCHANGED otherVars)
    \/ (reconnect /\ UNCHANGED otherVars)
    \/ (negotiate /\ UNCHANGED otherVars)
    \/ (connect_established(Capabilities) /\ UNCHANGED otherVars)
    \/ (negotiate_failed /\ UNCHANGED otherVars)
    \/ (connect_failed /\ UNCHANGED otherVars)
    \/ (transportError /\ UNCHANGED otherVars)
    \/ (dispatch /\ UNCHANGED otherVars)
    \/ \E r \in Reqs : response(r) /\ UNCHANGED otherVars
    \/ \E r \in Reqs : deadline(r) /\ UNCHANGED otherVars
    \/ \E r \in Reqs : cancel(r) /\ UNCHANGED otherVars

\* the connection with connect(config) called by the user at any time when
\* no channel is being established
NextState ==
    \/ (state # "CONNECTING" /\ connectCall /\ UNCHANGED otherVars)
    \/ (reconnect /\ UNCHANGED otherVars)
    \/ (negotiate /\ UNCHANGED otherVars)
    \/ (connect_established(Capabilities) /\ UNCHANGED otherVars)
    \/ (negotiate_failed /\ UNCHANGED otherVars)
    \/ (connect_failed /\ UNCHANGED otherVars)
    \/ (transportError /\ UNCHANGED otherVars)
    \/ (dispatch /\ UNCHANGED otherVars)
    \/ \E r \in Reqs : response(r) /\ UNCHANGED otherVars

\* the calls issued on a Ready connection, each raced with its timeout promise
NextCalls ==
    \/ (connect /\ UNCHANGED otherVars)
    \/ (reconnect /\ UNCHANGED otherVars)
    \/ (negotiate /\ UNCHANGED otherVars)
    \/ (connect_established(Capabilities) /\ UNCHANGED otherVars)
    \/ (negotiate_failed /\ UNCHANGED otherVars)
    \/ (connect_failed /\ UNCHANGED otherVars)
    \/ (transportError /\ UNCHANGED otherVars)
    \/ (Ready /\ dispatch /\ UNCHANGED otherVars)
    \/ \E r \in Reqs : response(r) /\ UNCHANGED otherVars
    \/ \E r \in Reqs : deadline(r) /\ UNCHANGED otherVars
    \/ \E r \in Reqs : timeoutFires(r) /\ UNCHANGED otherVars
    \/ \E r \in Reqs : cancel(r) /\ UNCHANGED otherVars


(***************************************************************************)
(* The life of the connection seen without caller requests: heartbeat,     *)
(* reconnection triggers and the capability gate behind the negotiation.   *)
(***************************************************************************)
MissThreshold == 2      \* consecutive misses the connection tolerates
MaxTriggers == 2        \* triggers counted during one behaviour
MaxCapRequests == 2     \* capability requests made in one behaviour

restVars == <<codecVars, execVars, cacheVars, batchVars, corrVars, idVars, discVars, xbVars, sanVars, tplVars, formVars>>

Triggers == {"heartbeat", "transport", "send"}

NoCap == [cap |-> "none", outcome |-> "none"]

\* the latest n entries of a log
Latest(log, n) ==
    IF Len(log) <= n THEN log ELSE SubSeq(log, Len(log) - n + 1, Len(log))

\* the number of misses at the end of a log
RECURSIVE TrailingMisses(_)
TrailingMisses(log) ==
    IF log = <<>> \/ log[Len(log)] # "miss" THEN 0
    ELSE 1 + TrailingMisses(SubSeq(log, 1, Len(log) - 1))

\* startHeartbeat(session): the interval is set on a connection that became
\* Ready
startHeartbeat ==
    /\ misses' = 0
    /\ probe' = "idle"
    /\ probeLog' = <<>>

\* the interval callback: a ping is sent with session.request
heartbeat_probe ==
    /\ Ready
    /\ probe = "idle"
    /\ probe' = "sent"
    /\ UNCHANGED <<misses, probeLog, triggersJoined, capRequests, lastCap, capWire>>
    /\ UNCHANGED connVars

\* heartbeat_response that leaves the miss counter as it is
heartbeat_response_noReset ==
    /\ Ready
    /\ probe = "sent"
    /\ probe' = "idle"
    /\ probeLog' = Latest(Append(probeLog, "ok"), MissThreshold + 1)
    /\ UNCHANGED <<misses, triggersJoined, capRequests, lastCap, capWire>>
    /\ UNCHANGED connVars

\* the ping was answered in time: lastHeartbeatTime is set and the miss
\* counter starts again
heartbeat_response ==
    /\ Ready
    /\ probe = "sent"
    /\ probe' = "idle"
    /\ misses' = 0
    /\ probeLog' = Latest(Append(probeLog, "ok"), MissThreshold + 1)
    /\ UNCHANGED <<triggersJoined, capRequests, lastCap, capWire>>
    /\ UNCHANGED connVars

\* the ping was not answered in time: handleHeartbeatFailure counts the miss
\* and, past the threshold, gives the connection up for reconnection
heartbeat_miss ==
    /\ Ready
    /\ probe = "sent"
    /\ probe' = "idle"
    /\ probeLog' = Latest(Append(probeLog, "miss"), MissThreshold + 1)
    /\ IF misses + 1 > MissThreshold
       THEN /\ misses' = 0
            /\ handleConnectionError
            /\ attemptsMade' = 0
            /\ UNCHANGED <<issued, connWire, handshake, negotiated, attemptsInFlight>>
       ELSE /\ misses' = misses + 1
            /\ UNCHANGED connVars
    /\ UNCHANGED <<triggersJoined, capRequests, lastCap, capWire>>

\* trigger that starts an attempt of its own
trigger_restart(kind) ==
    /\ Degraded
    /\ triggersJoined < MaxTriggers
    /\ triggersJoined' = triggersJoined + 1
    /\ state' = "CONNECTING"
    /\ attemptsInFlight' = attemptsInFlight + 1
    /\ UNCHANGED <<reconnectAttempts, queue, pending, call, issued, connWire,
                   attemptsMade, handshake, negotiated>>
    /\ UNCHANGED <<misses, probe, probeLog, capRequests, lastCap, capWire>>

\* a reconnection trigger (missed heartbeats, transport error, a caller's
\* send) arrives while the connection is Degraded: it joins the reconnection
\* that is under way
trigger(kind) ==
    /\ Degraded
    /\ triggersJoined < MaxTriggers
    /\ triggersJoined' = triggersJoined + 1
    /\ UNCHANGED connVars
    /\ UNCHANGED <<misses, probe, probeLog, capRequests, lastCap, capWire>>

\* requestCapability without the look-up in the negotiated set
requestCapability_unchecked(k) ==
    /\ Ready
    /\ capRequests < MaxCapRequests
    /\ capRequests' = capRequests + 1
    /\ lastCap' = [cap |-> k, outcome |-> "sent"]
    /\ capWire' = Append(capWire, k)
    /\ UNCHANGED <<misses, probe, probeLog, triggersJoined>>
    /\ UNCHANGED connVars

\* a request for a capability kind on a negotiated connection: outside the
\* negotiated set it fails with UnsupportedCapability and is not sent
requestCapability(k) ==
    /\ Ready
    /\ capRequests < MaxCapRequests
    /\ capRequests' = capRequests + 1
    /\ IF k \in negotiated
       THEN /\ lastCap' = [cap |-> k, outcome |-> "sent"]
            /\ capWire' = Append(capWire, k)
       ELSE /\ lastCap' = [cap |-> k, outcome |-> "UnsupportedCapability"]
            /\ UNCHANGED capWire
    /\ UNCHANGED <<misses, probe, probeLog, triggersJoined>>
    /\ UNCHANGED connVars

InitLink ==
    /\ misses = 0
    /\ probe = "idle"
    /\ probeLog = <<>>
    /\ triggersJoined = 0
    /\ capRequests = 0
    /\ lastCap = NoCap
    /\ capWire = <<>>

NextLink ==
    \/ (connect /\ UNCHANGED otherVars)
    \/ (reconnect /\ UNCHANGED otherVars)
    \/ (negotiate /\ UNCHANGED otherVars)
    \/ \E provided \in ProviderSets :
          /\ connect_established(provided)
          /\ startHeartbeat
          /\ UNCHANGED <<triggersJoined, capRequests, lastCap, capWire>>
          /\ UNCHANGED restVars
    \/ (negotiate_failed /\ UNCHANGED otherVars)
    \/ (connect_failed /\ UNCHANGED otherVars)
    \/ (transportError /\ UNCHANGED otherVars)
    \/ (heartbeat_probe /\ UNCHANGED restVars)
    \/ (heartbeat_response /\ UNCHANGED restVars)
    \/ (heartbeat_miss /\ UNCHANGED restVars)
    \/ \E kind \in Triggers : trigger(kind) /\ UNCHANGED restVars
    \/ \E k \in Capabilities : requestCapability(k) /\ UNCHANGED restVars


(***************************************************************************)
(* The request table and the responses that match none of its entries.     *)
(***************************************************************************)
MaxAnomalies == 2       \* unmatched responses received in one behaviour

\* the ids a response may bear: those of the requests and one never issued
ResponseIds == Reqs \cup {0}

\* unmatchedResponse that takes the anomaly for a failure of the transport
unmatchedResponse_degrades(id) ==
    /\ state = "CONNECTED"
    /\ id \notin pending
    /\ anomalies < MaxAnomalies
    /\ anomalies' = anomalies + 1
    /\ lastDropped' = id
    /\ transportError

\* a response arrives whose id is in no pending entry: it is dropped and
\* recorded as a protocol anomaly
unmatchedResponse(id) ==
    /\ state = "CONNECTED"
    /\ id \notin pending
    /\ anomalies < MaxAnomalies
    /\ anomalies' = anomalies + 1
    /\ lastDropped' = id
    /\ UNCHANGED connVars

InitCorr ==
    /\ anomalies = 0
    /\ lastDropped = -1

corrRest == <<codecVars, execVars, cacheVars, batchVars, linkVars, idVars, discVars, xbVars, sanVars, tplVars, formVars>>

NextCorr ==
    \/ (connect /\ UNCHANGED otherVars)
    \/ (negotiate /\ UNCHANGED otherVars)
    \/ (connect_established(Capabilities) /\ UNCHANGED otherVars)
    \/ (transportError /\ UNCHANGED otherVars)
    \/ (Ready /\ dispatch /\ UNCHANGED otherVars)
    \/ \E r \in Reqs : response(r) /\ UNCHANGED otherVars
    \/ \E r \in Reqs : deadline(r) /\ UNCHANGED otherVars
    \/ \E r \in Reqs : timeoutFires(r) /\ UNCHANGED otherVars
    \/ \E r \in Reqs : cancel(r) /\ UNCHANGED otherVars
    \/ \E id \in ResponseIds : unmatchedResponse(id) /\ UNCHANGED corrRest


(***************************************************************************)
(* The ids of the requests outstanding on one session: those of callers    *)
(* (generateRequestId), of the handshake (the number 1) and of heartbeat   *)
(* probes (heartbeat-<Date.now()>).  An id is a record of its kind and     *)
(* its number.                                                             *)
(***************************************************************************)
MaxMs == 2              \* last millisecond of the clock
MaxIntervals == 2       \* calls of startHeartbeat in one behaviour
MaxOutstanding == 3     \* requests outstanding at one time
MaxRequestIds == 2      \* caller requests made in one behaviour

Intervals == 1..MaxIntervals

\* `heartbeat-${Date.now()}`
heartbeatId == [kind |-> "heartbeat", n |-> msClock]

\* id: 1 of the initialize request
handshakeId == [kind |-> "number", n |-> 1]

\* generateRequestId(): a fresh id for each caller request
generateRequestId == [kind |-> "request", n |-> requestIds + 1]

\* startHeartbeat(session, intervalMs): setInterval, its handle kept in
\* intervalId; an interval set before keeps running
setHeartbeatInterval ==
    /\ handles < MaxIntervals
    /\ handles' = handles + 1
    /\ running' = running \cup {handles + 1}
    /\ intervalId' = handles + 1
    /\ UNCHANGED <<msClock, firedAt, idTable, requestIds>>

\* stopHeartbeat(): clearInterval(intervalId)
stopHeartbeat ==
    /\ intervalId \in running
    /\ running' = running \ {intervalId}
    /\ UNCHANGED <<msClock, handles, intervalId, firedAt, idTable, requestIds>>

\* the callback of interval h runs (at most once in a millisecond) and sends
\* its ping
pingSent(h) ==
    /\ h \in running
    /\ firedAt[h] < msClock
    /\ Len(idTable) < MaxOutstanding
    /\ firedAt' = [firedAt EXCEPT ![h] = msClock]
    /\ idTable' = Append(idTable, heartbeatId)
    /\ UNCHANGED <<msClock, handles, running, intervalId, requestIds>>

\* negotiate(session) sends initialize; one handshake is outstanding at a time
handshakeSent ==
    /\ \A i \in DOMAIN idTable : idTable[i].kind # "number"
    /\ Len(idTable) < MaxOutstanding
    /\ idTable' = Append(idTable, handshakeId)
    /\ UNCHANGED <<msClock, handles, running, intervalId, firedAt, requestIds>>

\* a caller's request is sent with the id of generateRequestId()
requestSent ==
    /\ requestIds < MaxRequestIds
    /\ Len(idTable) < MaxOutstanding
    /\ requestIds' = requestIds + 1
    /\ idTable' = Append(idTable, generateRequestId)
    /\ UNCHANGED <<msClock, handles, running, intervalId, firedAt>>

\* the request of entry i is answered, or given up, and leaves the table
requestAnswered(i) ==
    /\ i \in DOMAIN idTable
    /\ idTable' = [j \in 1..(Len(idTable) - 1) |->
                      IF j < i THEN idTable[j] ELSE idTable[j + 1]]
    /\ UNCHANGED <<msClock, handles, running, intervalId, firedAt, requestIds>>

\* a millisecond passes
msTick ==
    /\ msClock < MaxMs
    /\ msClock' = msClock + 1
    /\ UNCHANGED <<handles, running, intervalId, firedAt, idTable, requestIds>>

InitIds ==
    /\ msClock = 0
    /\ handles = 0
    /\ running = {}
    /\ intervalId = 0
    /\ firedAt = [h \in Intervals |-> -1]
    /\ idTable = <<>>
    /\ requestIds = 0

idRest == <<codecVars, execVars, cacheVars, batchVars, connVars, linkVars, corrVars,
           discVars, xbVars, sanVars, tplVars, formVars>>

NextIds ==
    \/ (setHeartbeatInterval /\ UNCHANGED idRest)
    \/ (stopHeartbeat /\ UNCHANGED idRest)
    \/ \E h \in Intervals : pingSent(h) /\ UNCHANGED idRest
    \/ (handshakeSent /\ UNCHANGED idRest)
    \/ (requestSent /\ UNCHANGED idRest)
    \/ \E i \in 1..MaxOutstanding : requestAnswered(i) /\ UNCHANGED idRest
    \/ (msTick /\ UNCHANGED idRest)


(***************************************************************************)
(* QualityToolManager: listTools with its cache, and the notification that *)
(* the provider's tool list changed.  Time is the clock of the access      *)
(* controller (now, Tick).                                                 *)
(***************************************************************************)
MaxListCalls == 3       \* listTools calls in one behaviour
MaxChanges == 2         \* changes of the provider's tool list
DiscTTL == 2            \* cacheTTL, in ticks

Listers == {1, 2}

\* the cursor argument of listTools: undefined, or the cursor of a later page
Cursors == {"undefined", "page2"}

NoTools == [present |-> FALSE, version |-> 0, epoch |-> 0, page |-> "undefined"]

NoList ==
    [pc |-> "idle", cursor |-> "undefined", hit |-> FALSE, epoch |-> 0,
     first |-> FALSE, sent |-> 0, result |-> -1, resultEpoch |-> -1,
     resultPage |-> "undefined", wired |-> 0]

\* isCacheValid(): a list is cached and cacheTTL has not passed since
\* lastDiscoveryTime
isCacheValid == toolsCache.present /\ ~(now - lastDiscoveryTime > DiscTTL)

\* listTools(cursor) up to its await: without a cursor a valid cache is
\* returned; otherwise the request tools/list is sent
listTools(c, cursor) ==
    /\ ls[c].pc \in {"idle", "done"}
    /\ listCalls < MaxListCalls
    /\ listCalls' = listCalls + 1
    /\ callsSinceSignal' = IF callsSinceSignal < 2 THEN callsSinceSignal + 1 ELSE 2
    /\ LET lc == [NoList EXCEPT !.epoch = listVersion, !.cursor = cursor,
                                !.first = (callsSinceSignal = 0)]
       IN  IF isCacheValid /\ cursor = "undefined"
           THEN /\ ls' = [ls EXCEPT ![c] =
                            [lc EXCEPT !.pc = "done", !.hit = TRUE,
                                       !.result = toolsCache.version,
                                       !.resultEpoch = toolsCache.epoch,
                                       !.resultPage = toolsCache.page]]
                /\ UNCHANGED discWire
           ELSE /\ ls' = [ls EXCEPT ![c] =
                            [lc EXCEPT !.pc = "awaiting", !.wired = 1,
                                       !.sent = listVersion]]
                /\ discWire' = Append(discWire, c)
    /\ UNCHANGED <<toolsCache, lastDiscoveryTime, listVersion>>

\* the response of tools/list arrives and is valid: the cache is updated,
\* lastDiscoveryTime is set and the result returned.  The list is the
\* provider's list at some moment between the request and the response.
listTools_response(c) ==
    /\ ls[c].pc = "awaiting"
    /\ \E v \in ls[c].sent..listVersion :
        /\ toolsCache' = [present |-> TRUE, version |-> v, epoch |-> listVersion,
                          page |-> ls[c].cursor]
        /\ ls' = [ls EXCEPT ![c].pc = "done", ![c].result = v,
                            ![c].resultEpoch = listVersion,
                            ![c].resultPage = ls[c].cursor]
    /\ lastDiscoveryTime' = now
    /\ UNCHANGED <<listVersion, discWire, callsSinceSignal, listCalls>>

\* session.request throws or the response is not valid: handleDiscoveryError
listTools_error(c) ==
    /\ ls[c].pc = "awaiting"
    /\ ls' = [ls EXCEPT ![c].pc = "done"]
    /\ UNCHANGED <<toolsCache, lastDiscoveryTime, listVersion, discWire,
                   callsSinceSignal, listCalls>>

\* handleToolsListChanged(): the provider's list changed and the cached
\* list is dropped
handleToolsListChanged ==
    /\ listVersion < MaxChanges
    /\ listVersion' = listVersion + 1
    /\ callsSinceSignal' = 0
    /\ toolsCache' = NoTools
    /\ UNCHANGED <<lastDiscoveryTime, ls, discWire, listCalls>>

InitDisc ==
    /\ toolsCache = NoTools
    /\ lastDiscoveryTime = 0
    /\ ls = [c \in Listers |-> NoList]
    /\ listVersion = 0
    /\ discWire = <<>>
    /\ callsSinceSignal = 0
    /\ listCalls = 0

discRest == <<codecVars, execVars, cacheVars, batchVars, connVars, linkVars, corrVars,
             idVars, xbVars, sanVars, tplVars, formVars>>

NextDisc ==
    \/ \E c \in Listers, cursor \in Cursors : listTools(c, cursor) /\ UNCHANGED discRest
    \/ \E c \in Listers : listTools_response(c) /\ UNCHANGED discRest
    \/ \E c \in Listers : listTools_error(c) /\ UNCHANGED discRest
    \/ (handleToolsListChanged /\ UNCHANGED discRest)
    \/ (Tick /\ UNCHANGED <<codecVars, cacheVars, batchVars, connVars, linkVars,
                            corrVars, idVars, discVars, xbVars, sanVars, tplVars, formVars>>)


(***************************************************************************)
(* BatchToolExecutor (BatchPromptProcessor has the same shape): the        *)
(* requests are cut into batches, the requests of a batch run together,    *)
(* and the settled results of each batch are appended to the results.      *)
(***************************************************************************)
MaxBatchReqs == 6       \* longest argument of executeBatch
toolBatchSize == 5      \* BatchToolExecutor.batchSize

\* the arguments of executeBatch: request i has id i and will succeed or fail
RequestLists ==
    UNION {{[i \in 1..n |-> [id |-> i, ok |-> f[i]]] : f \in [1..n -> BOOLEAN]} :
              n \in 0..MaxBatchReqs}

Min(a, b) == IF a < b THEN a ELSE b

\* createBatches: slices of batchSize requests, the last one shorter
createBatches(rs) ==
    [b \in 1..((Len(rs) + toolBatchSize - 1) \div toolBatchSize) |->
        SubSeq(rs, toolBatchSize * (b - 1) + 1, Min(toolBatchSize * b, Len(rs)))]

\* Promise.allSettled that lists the outcomes in the order of completion
allSettled_byCompletion(b) ==
    LET ids == {b[j].id : j \in DOMAIN b}
        order == SelectSeq(completed, LAMBDA id : id \in ids)
    IN  [j \in DOMAIN order |->
            [id |-> order[j],
             status |-> IF requests[order[j]].ok THEN "fulfilled" ELSE "rejected"]]

\* Promise.allSettled(batch.map(req => this.executeSingle(req))): one outcome
\* per promise, in the order of the promises
allSettled(b) ==
    [j \in DOMAIN b |->
        [id |-> b[j].id,
         status |-> IF b[j].ok THEN "fulfilled" ELSE "rejected"]]

\* processBatchResults: one BatchResult per settled outcome
processBatchResults(batchResults) ==
    [j \in DOMAIN batchResults |->
        [id |-> batchResults[j].id,
         success |-> batchResults[j].status = "fulfilled"]]

\* executeBatch(requests) up to the first await
executeBatch(rs) ==
    /\ xpc = "idle"
    /\ requests' = rs
    /\ results' = <<>>
    /\ batchIx' = 1
    /\ xpc' = IF Len(createBatches(rs)) = 0 THEN "returned" ELSE "running"
    /\ UNCHANGED <<settled, completed>>

\* executeSingle of one request of the running batch settles
executeSingle_settles(id) ==
    /\ xpc = "running"
    /\ \E j \in DOMAIN createBatches(requests)[batchIx] :
          createBatches(requests)[batchIx][j].id = id
    /\ id \notin settled
    /\ settled' = settled \cup {id}
    /\ completed' = Append(completed, id)
    /\ UNCHANGED <<requests, batchIx, results, xpc>>

\* the await of Promise.allSettled resumes: the results of the batch are
\* pushed and the loop goes on, or returns after the last batch
executeBatch_collect ==
    /\ xpc = "running"
    /\ LET b == createBatches(requests)[batchIx]
       IN  /\ \A j \in DOMAIN b : b[j].id \in settled
           /\ results' = results \o processBatchResults(allSettled(b))
    /\ IF batchIx = Len(createBatches(requests))
       THEN xpc' = "returned" /\ UNCHANGED batchIx
       ELSE batchIx' = batchIx + 1 /\ UNCHANGED xpc
    /\ UNCHANGED <<requests, settled, completed>>

InitXb ==
    /\ requests = <<>>
    /\ batchIx = 0
    /\ settled = {}
    /\ completed = <<>>
    /\ results = <<>>
    /\ xpc = "idle"

xbRest == <<codecVars, execVars, cacheVars, batchVars, connVars, linkVars, corrVars,
           idVars, discVars, sanVars, tplVars, formVars>>

NextXb ==
    \/ \E rs \in RequestLists : executeBatch(rs) /\ UNCHANGED xbRest
    \/ \E id \in 1..MaxBatchReqs : executeSingle_settles(id) /\ UNCHANGED xbRest
    \/ (executeBatch_collect /\ UNCHANGED xbRest)


(***************************************************************************)
(* The sanitizers of strings: ArgumentSanitizer.sanitizeString and         *)
(* PromptContentSanitizer.  A string is the sequence of its characters.    *)
(* The strings are in lower case, so the i flag of the patterns is of no   *)
(* effect on them.                                                         *)
(***************************************************************************)
MaxPieces == 3          \* pieces a string given to a sanitizer is made of

Pieces ==
    {<<"j", "a", "v", "a", "s", "c", "r", "i", "p", "t", ":">>,
     <<"j", "a", "v", "a">>,
     <<"s", "c", "r", "i", "p", "t", ":">>,
     <<"<", "s", "c", "r", "i", "p", "t", ">">>,
     <<"<", "/", "s", "c", "r", "i", "p", "t", ">">>,
     <<"o", "n", "x", "=">>,
     <<"'">>, <<"<">>, <<"x">>, <<"\n">>}

RECURSIVE Strings(_)
Strings(n) ==
    IF n = 0 THEN {<<>>}
    ELSE Strings(n - 1) \cup {s \o p : s \in Strings(n - 1), p \in Pieces}

Contents == Strings(MaxPieces)

WordChars ==
    {"a", "c", "e", "i", "j", "l", "n", "o", "p", "r", "s", "t", "v", "x"}
Whitespace == {" ", "\n", "\r", "\t"}
Quotes == {"\"", "'"}

\* the pattern pat matches s at position i
IsAt(s, i, pat) ==
    /\ i + Len(pat) - 1 <= Len(s)
    /\ \A k \in 1..Len(pat) : s[i + k - 1] = pat[k]

\* the first position from i on at which pat matches, 0 when there is none
FirstAt(s, i, pat) ==
    IF \E j \in i..Len(s) : IsAt(s, j, pat)
    THEN CHOOSE j \in i..Len(s) :
            IsAt(s, j, pat) /\ \A k \in i..(j - 1) : ~IsAt(s, k, pat)
    ELSE 0

\* the first position from i on whose character is not in set
RunEnd(s, i, set) ==
    IF \E j \in i..Len(s) : s[j] \notin set
    THEN CHOOSE j \in i..Len(s) :
            s[j] \notin set /\ \A k \in i..(j - 1) : s[k] \in set
    ELSE Len(s) + 1

Drop(s, n) == SubSeq(s, n + 1, Len(s))

\* .replace(/javascript:/gi, ''): every match found in one pass from left
\* to right is removed
RECURSIVE replaceLiteral(_, _)
replaceLiteral(s, pat) ==
    IF s = <<>> THEN <<>>
    ELSE IF IsAt(s, 1, pat) THEN replaceLiteral(Drop(s, Len(pat)), pat)
    ELSE <<Head(s)>> \o replaceLiteral(Tail(s), pat)

\* the length of the match of
\* /<script\b[^<]*(?:(?!<\/script>)<[^<]*)*<\/script>/ at the head of s, 0
\* when there is none: "<script" at a word boundary, up to the first
\* "</script>" after it
scriptMatch(s) ==
    LET open == <<"<", "s", "c", "r", "i", "p", "t">>
        close == <<"<", "/", "s", "c", "r", "i", "p", "t", ">">>
        j == FirstAt(s, Len(open) + 1, close)
    IN  IF IsAt(s, 1, open) /\ Len(s) > Len(open)
              /\ s[Len(open) + 1] \notin WordChars /\ j # 0
        THEN j + Len(close) - 1
        ELSE 0

\* the length of the match of /on\w+\s*=\s*["'][^"']*["']/ at the head of s,
\* 0 when there is none
handlerMatch(s) ==
    LET w == RunEnd(s, 3, WordChars)
        e == RunEnd(s, w, Whitespace)
        q == RunEnd(s, e + 1, Whitespace)
        c == RunEnd(s, q + 1, {ch \in Range(s) : ch \notin Quotes})
    IN  IF /\ IsAt(s, 1, <<"o", "n">>)
           /\ w > 3
           /\ e <= Len(s) /\ s[e] = "="
           /\ q <= Len(s) /\ s[q] \in Quotes
           /\ c <= Len(s)
        THEN c
        ELSE 0

\* .replace(pattern, '') with the g flag, the pattern given by the length of
\* its match at the head of a string
RECURSIVE removeScripts(_)
removeScripts(s) ==
    IF s = <<>> THEN <<>>
    ELSE IF scriptMatch(s) > 0 THEN removeScripts(Drop(s, scriptMatch(s)))
    ELSE <<Head(s)>> \o removeScripts(Tail(s))

RECURSIVE removeHandlers(_)
removeHandlers(s) ==
    IF s = <<>> THEN <<>>
    ELSE IF handlerMatch(s) > 0 THEN removeHandlers(Drop(s, handlerMatch(s)))
    ELSE <<Head(s)>> \o removeHandlers(Tail(s))

\* sanitizeHTML: script elements, event handler attributes and javascript:
\* are removed, each by one replace
sanitizeHTML(content) ==
    replaceLiteral(removeHandlers(removeScripts(content)), <<"j", "a", "v", "a", "s", "c", "r", "i", "p", "t", ":">>)

\* .replace(/\r\n|\r|\n/g, ' ')
RECURSIVE replaceNewlines(_)
replaceNewlines(s) ==
    IF s = <<>> THEN <<>>
    ELSE IF IsAt(s, 1, <<"\r", "\n">>) THEN <<" ">> \o replaceNewlines(Drop(s, 2))
    ELSE IF Head(s) \in {"\r", "\n"} THEN <<" ">> \o replaceNewlines(Tail(s))
    ELSE <<Head(s)>> \o replaceNewlines(Tail(s))

\* .trim()
RECURSIVE trimEnd(_)
trimEnd(s) ==
    IF s # <<>> /\ s[Len(s)] \in Whitespace THEN trimEnd(SubSeq(s, 1, Len(s) - 1))
    ELSE s

trim(s) == trimEnd(Drop(s, RunEnd(s, 1, Whitespace) - 1))

\* sanitizeText: the disallowed characters are removed, line breaks become
\* spaces and the result is trimmed
sanitizeText(content) ==
    trim(replaceNewlines(SelectSeq(content, LAMBDA ch : ch \notin DisallowedChars)))

MimeTypes == {"text/html", "text/plain"}

\* sanitizePromptContent(content, mimeType): the sanitizer registered for the
\* mime type, or the default one
sanitizePromptContent(content, mimeType) ==
    IF mimeType = "text/html" THEN sanitizeHTML(content)
    ELSE sanitizeText(content)

\* a string argument is sanitized by ArgumentSanitizer.sanitizeString
sanitizeArgument ==
    \E content \in Contents :
        /\ sanPolicy = "none"
        /\ sanContent' = content
        /\ sanPolicy' = "argument"
        /\ sanOnce' = sanitizeString(Str(content)).s
        /\ sanTwice' = sanitizeString(sanitizeString(Str(content))).s

\* the content of a prompt is sanitized by sanitizePromptContent
sanitizeContent ==
    \E content \in Contents, mimeType \in MimeTypes :
        /\ sanPolicy = "none"
        /\ sanContent' = content
        /\ sanPolicy' = mimeType
        /\ sanOnce' = sanitizePromptContent(content, mimeType)
        /\ sanTwice' = sanitizePromptContent(
                           sanitizePromptContent(content, mimeType), mimeType)

InitSan ==
    /\ sanContent = <<>>
    /\ sanPolicy = "none"
    /\ sanOnce = <<>>
    /\ sanTwice = <<>>

sanRest == <<codecVars, execVars, cacheVars, batchVars, connVars, linkVars, corrVars,
            idVars, discVars, xbVars, tplVars, formVars>>

NextSan ==
    \/ (sanitizeArgument /\ UNCHANGED sanRest)
    \/ (sanitizeContent /\ UNCHANGED sanRest)


(***************************************************************************)
(* QualityPromptRetriever.renderPrompt and                                 *)
(* ResourceTemplateHandler.processTemplate: every entry of the parameters  *)
(* is substituted for its placeholder, in the order of Object.entries.     *)
(* Strings are sequences of characters.                                    *)
(***************************************************************************)
MaxTplPieces == 3       \* pieces a template is made of

TplKeys == {"a", "b"}

\* the placeholder of a key: {{key}} in a prompt template, {key} in a uri
\* pattern
placeholder(kind, key) ==
    IF kind = "prompt" THEN <<"{", "{", key, "}", "}">> ELSE <<"{", key, "}">>

TplPieces(kind) == {placeholder(kind, k) : k \in TplKeys} \cup {<<"x">>}

RECURSIVE Templates(_, _)
Templates(kind, n) ==
    IF n = 0 THEN {<<>>}
    ELSE Templates(kind, n - 1)
            \cup {s \o p : s \in Templates(kind, n - 1), p \in TplPieces(kind)}

\* the values of the parameters: plain text, text with a disallowed
\* character, and text that reads like the placeholder of the other key
TplValues(kind) == {<<"x">>, <<"<", "x">>} \cup {placeholder(kind, k) : k \in TplKeys}

\* Object.entries(params): the keys in the order in which the caller wrote
\* them, each with its value
TplEntries(kind) ==
    {<<[key |-> k, value |-> v]>> : k \in TplKeys, v \in TplValues(kind)}
    \cup {e \in {<<[key |-> k1, value |-> v1], [key |-> k2, value |-> v2]>> :
                    k1 \in TplKeys, k2 \in TplKeys,
                    v1 \in TplValues(kind), v2 \in TplValues(kind)} :
            e[1].key # e[2].key}

\* encodeURIComponent(String(value)): letters stay, the other characters of
\* the values are percent-encoded
encodeChar(ch) ==
    CASE ch = "{" -> <<"%", "7", "B">>
      [] ch = "}" -> <<"%", "7", "D">>
      [] ch = "<" -> <<"%", "3", "C">>
      [] OTHER -> <<ch>>

RECURSIVE encodeURIComponent(_)
encodeURIComponent(s) ==
    IF s = <<>> THEN <<>> ELSE encodeChar(Head(s)) \o encodeURIComponent(Tail(s))

\* sanitizePromptValue(value): the default text sanitizer
sanitizePromptValue(value) == sanitizeText(value)

\* what is inserted for a value
inserted(kind, value) ==
    IF kind = "prompt" THEN sanitizePromptValue(value) ELSE encodeURIComponent(value)

\* text.replace(ph, value) with a string pattern: the first occurrence only
replaceFirst(text, ph, value) ==
    LET i == FirstAt(text, 1, ph)
    IN  IF i = 0 THEN text
        ELSE SubSeq(text, 1, i - 1) \o value \o Drop(text, i + Len(ph) - 1)

\* the for loop over Object.entries: if the text includes the placeholder of
\* the key, it is replaced by the value
RECURSIVE renderLoop(_, _, _)
renderLoop(kind, text, params) ==
    IF params = <<>> THEN text
    ELSE LET e == Head(params)
             ph == placeholder(kind, e.key)
         IN  renderLoop(kind,
                        IF FirstAt(text, 1, ph) # 0
                        THEN replaceFirst(text, ph, inserted(kind, e.value))
                        ELSE text,
                        Tail(params))

\* renderPrompt(prompt, params) / processTemplate(templateUri, parameters):
\* the parameters are valid, the template is rendered, and the check of the
\* rendered text, which is not part of the sources, accepts it or throws
render(kind) ==
    /\ tplPc = "idle"
    /\ \E template \in Templates(kind, MaxTplPieces), params \in TplEntries(kind) :
        /\ tplKind' = kind
        /\ tplTemplate' = template
        /\ tplParams' = params
        /\ tplRendered' = renderLoop(kind, template, params)
    /\ tplPc' \in {"returned", "threw"}

renderPrompt == render("prompt")
processTemplate == render("uri")

InitTpl ==
    /\ tplKind = "none"
    /\ tplTemplate = <<>>
    /\ tplParams = <<>>
    /\ tplRendered = <<>>
    /\ tplPc = "idle"

tplRest == <<codecVars, execVars, cacheVars, batchVars, connVars, linkVars, corrVars,
            idVars, discVars, xbVars, sanVars, formVars>>

NextTpl ==
    \/ (renderPrompt /\ UNCHANGED tplRest)
    \/ (processTemplate /\ UNCHANGED tplRest)

\* the rendering the parameters stand for: every placeholder of a supplied
\* key that the template holds is replaced by what is inserted for the value
\* of that key, and the inserted text is not looked at again
RECURSIVE substituted(_, _, _)
substituted(kind, template, params) ==
    IF template = <<>> THEN <<>>
    ELSE IF \E i \in DOMAIN params : IsAt(template, 1, placeholder(kind, params[i].key))
    THEN LET i == CHOOSE i \in DOMAIN params :
                      IsAt(template, 1, placeholder(kind, params[i].key))
         IN  inserted(kind, params[i].value)
                \o substituted(kind, Drop(template, Len(placeholder(kind, params[i].key))),
                               params)
    ELSE <<Head(template)>> \o substituted(kind, Tail(template), params)


(***************************************************************************)
(* The structured-input-form extension: the command showInputForm with its *)
(* webview panel, and the /29 trigger of the text change listener.         *)
(***************************************************************************)
MaxPanels == 3          \* createWebviewPanel calls in one behaviour
MaxCommands == 6        \* runs of showInputForm in one behaviour
MaxPendingCmd == 3      \* executeCommand calls waiting to run

docVars == <<doc, selection, lastText, edits, keys, triggerLog>>

\* showInputForm that creates a panel whether or not one exists
showInputForm_alwaysCreates ==
    /\ commandsRun < MaxCommands
    /\ commandsRun' = commandsRun + 1
    /\ panelsCreated < MaxPanels
    /\ panelsCreated' = panelsCreated + 1
    /\ panels' = panels \cup {panelsCreated + 1}
    /\ panel' = panelsCreated + 1

\* the command structured-input-form.showInputForm: the existing panel is
\* revealed, or a panel is created and its onDidDispose handler registered
showInputForm ==
    /\ commandsRun < MaxCommands
    /\ commandsRun' = commandsRun + 1
    /\ IF panel # 0
       THEN UNCHANGED <<panel, panels, panelsCreated>>
       ELSE /\ panelsCreated < MaxPanels
            /\ panelsCreated' = panelsCreated + 1
            /\ panels' = panels \cup {panelsCreated + 1}
            /\ panel' = panelsCreated + 1

\* the user runs the command
invokeCommand ==
    /\ showInputForm
    /\ UNCHANGED <<pendingCmd, docVars>>

\* the edit of a detected /29 trigger has settled and its then callback
\* calls executeCommand
slashTrigger ==
    /\ pendingCmd < MaxPendingCmd
    /\ pendingCmd' = pendingCmd + 1
    /\ UNCHANGED <<panel, panels, panelsCreated, commandsRun, docVars>>

\* the command called by executeCommand runs
runPendingCommand ==
    /\ pendingCmd > 0
    /\ pendingCmd' = pendingCmd - 1
    /\ showInputForm
    /\ UNCHANGED docVars

\* the user closes the panel: it is disposed and the handler registered
\* with onDidDispose sets panel to null
disposePanel ==
    /\ \E p \in panels : panels' = panels \ {p}
    /\ panel' = 0
    /\ UNCHANGED <<panelsCreated, commandsRun, pendingCmd, docVars>>

InitForm ==
    /\ panel = 0
    /\ panels = {}
    /\ panelsCreated = 0
    /\ commandsRun = 0
    /\ pendingCmd = 0
    /\ doc = <<<<>>, <<>>>>
    /\ selection = [line |-> 1, character |-> 0]
    /\ lastText = <<>>
    /\ edits = <<>>
    /\ keys = 0
    /\ triggerLog = <<>>

formRest == <<codecVars, execVars, cacheVars, batchVars, connVars, linkVars, corrVars,
             idVars, discVars, xbVars, sanVars, tplVars>>

NextPanel ==
    \/ (invokeCommand /\ UNCHANGED formRest)
    \/ (slashTrigger /\ UNCHANGED formRest)
    \/ (runPendingCommand /\ UNCHANGED formRest)
    \/ (disposePanel /\ UNCHANGED formRest)


MaxKeys == 4            \* characters typed in one behaviour
Chars == {"/", "2", "9"}
DocLines == 1..2
Trigger == <<"/", "2", "9">>

\* String.prototype.endsWith
endsWith(s, suffix) ==
    /\ Len(s) >= Len(suffix)
    /\ SubSeq(s, Len(s) - Len(suffix) + 1, Len(s)) = suffix

\* the text with the character c inserted at column ch
insertAt(text, ch, c) == SubSeq(text, 1, ch) \o <<c>> \o SubSeq(text, ch + 1, Len(text))

\* the text without the columns from to to
deleteRange(text, from, to) == SubSeq(text, 1, from) \o SubSeq(text, to + 1, Len(text))

\* every edit requested before a change of the document is made for an old
\* version of it
outdated(es) == [i \in DOMAIN es |-> [es[i] EXCEPT !.stale = TRUE]]

\* the listener of onDidChangeTextDocument, called for a change that left
\* the document d and the cursor at pos; queued are the edits requested
\* before.  The constructor of vscode.Position throws for a negative
\* character: the listener ends there, before lastText is assigned.
onDidChangeTextDocument(d, pos, queued, cause) ==
    LET lineText == d[pos.line]
        start == pos.character - 3
        entry == [line |-> pos.line, start |-> start, end |-> pos.character,
                  text |-> IF start >= 0
                           THEN SubSeq(lineText, start + 1, pos.character)
                           ELSE <<>>,
                  cause |-> cause, requested |-> start >= 0]
    IN  IF endsWith(lineText, Trigger) /\ ~endsWith(lastText, Trigger)
        THEN /\ triggerLog' = Append(triggerLog, entry)
             /\ IF start < 0
                THEN /\ edits' = queued
                     /\ lastText' = lastText
                ELSE /\ edits' = Append(queued, [line |-> pos.line, start |-> start,
                                                 end |-> pos.character, stale |-> FALSE])
                     /\ lastText' = lineText
        ELSE /\ triggerLog' = triggerLog
             /\ edits' = queued
             /\ lastText' = lineText

\* the user types the character c at the cursor
typeChar(c) ==
    /\ keys < MaxKeys
    /\ keys' = keys + 1
    /\ doc' = [doc EXCEPT ![selection.line] = insertAt(@, selection.character, c)]
    /\ selection' = [selection EXCEPT !.character = @ + 1]
    /\ onDidChangeTextDocument(doc', selection', outdated(edits), "typed")
    /\ UNCHANGED <<panel, panels, panelsCreated, commandsRun, pendingCmd>>

\* the user puts the cursor somewhere else: no change of the document
moveCursor(l, ch) ==
    /\ ch <= Len(doc[l])
    /\ selection # [line |-> l, character |-> ch]
    /\ selection' = [line |-> l, character |-> ch]
    /\ UNCHANGED <<panel, panels, panelsCreated, commandsRun, pendingCmd, doc,
                   lastText, edits, keys, triggerLog>>

\* the cursor after the columns from to to of its line were deleted
afterDelete(pos, e) ==
    IF pos.line # e.line \/ pos.character <= e.start THEN pos
    ELSE IF pos.character >= e.end
         THEN [pos EXCEPT !.character = @ - (e.end - e.start)]
         ELSE [pos EXCEPT !.character = e.start]

\* editor.edit settles: the delete is applied when the document is still
\* the one it was built for (the change calls the listener), and the then
\* callback calls executeCommand
applyEdit ==
    /\ edits # <<>>
    /\ LET e == Head(edits)
       IN  IF e.stale
           THEN /\ edits' = Tail(edits)
                /\ UNCHANGED <<doc, selection, lastText, triggerLog>>
           ELSE /\ doc' = [doc EXCEPT ![e.line] = deleteRange(@, e.start, e.end)]
                /\ selection' = afterDelete(selection, e)
                /\ onDidChangeTextDocument(doc', selection', outdated(Tail(edits)),
                                           "deleted")
    /\ pendingCmd' = pendingCmd + 1
    /\ UNCHANGED <<panel, panels, panelsCreated, commandsRun, keys>>

NextForm ==
    \/ \E c \in Chars : typeChar(c) /\ UNCHANGED formRest
    \/ \E l \in DocLines, ch \in 0..MaxKeys : moveCursor(l, ch) /\ UNCHANGED formRest
    \/ (applyEdit /\ UNCHANGED formRest)
    \/ (runPendingCommand /\ UNCHANGED formRest)
    \/ (disposePanel /\ UNCHANGED formRest)

Init ==
    /\ InitCodec /\ InitExec /\ InitCache /\ InitBatch /\ InitConn /\ InitLink
    /\ InitCorr /\ InitIds /\ InitDisc /\ InitXb /\ InitSan /\ InitTpl /\ InitForm

SpecCodec == Init /\ [][NextCodec]_vars
SpecExec == Init /\ [][NextExec]_vars
SpecCache == Init /\ [][NextCache]_vars
SpecBatch == Init /\ [][NextBatch]_vars
SpecConn == Init /\ [][NextConn]_vars
SpecLink == Init /\ [][NextLink]_vars
SpecCorr == Init /\ [][NextCorr]_vars
SpecIds == Init /\ [][NextIds]_vars
SpecDisc == Init /\ [][NextDisc]_vars
SpecState == Init /\ [][NextState]_vars
SpecXb == Init /\ [][NextXb]_vars
SpecSan == Init /\ [][NextSan]_vars
SpecTpl == Init /\ [][NextTpl]_vars
SpecPanel == Init /\ [][NextPanel]_vars
SpecForm == Init /\ [][NextForm]_vars

\* timers set with setTimeout fire
FairConn ==
    /\ Init /\ [][NextCalls]_vars
    /\ WF_vars((\E r \in Reqs : deadline(r) \/ timeoutFires(r)) /\ UNCHANGED otherVars)

(***************************************************************************)
(* Properties of the message handler.                                      *)
(***************************************************************************)
\* the shape of a JSON-RPC message: a request (method alone) or a response
\* (exactly one of result and error, and no method)
WellShaped(m) ==
    \/ m.hasMethod /\ ~m.hasResult /\ ~m.hasError
    \/ ~m.hasMethod /\ (m.hasResult /= m.hasError)

\* C8: deserialize produces an envelope only for a message that is a request
\* (method present, no result, no error) or a response (exactly one of result
\* and error, no method); every other message makes it fail.
C8_DecodeRejectsIllShaped ==
    decodeOutcome = "envelope" => WellShaped(data)

(***************************************************************************)
(* Properties of the tool executor and the access controller.              *)
(***************************************************************************)
\* what the declared schema forbids in an argument object, whatever the
\* validator reports: a required parameter that is missing, a value of the
\* wrong type, a value outside the enum
Violations(tool, args) ==
    LET schema == inputSchema(tool)
    IN  {[param |-> p, kind |-> "required"] :
            p \in {q \in Range(schema.required) : args[q] = Undefined}}
        \cup
        {[param |-> p, kind |-> "type"] :
            p \in {q \in DOMAIN schema.properties :
                    args[q] # Undefined /\ typeof(args[q]) # schema.properties[q].type}}
        \cup
        {[param |-> p, kind |-> "enum"] :
            p \in {q \in DOMAIN schema.properties :
                    /\ args[q] # Undefined
                    /\ schema.properties[q].hasEnum
                    /\ args[q] \notin schema.properties[q].enum}}

AccessErrors == {"PermissionDenied", "RateLimited", "QuotaExceeded"}

\* C5: once the validator has run on a call whose arguments violate the
\* schema, the call has failed with a ValidationError whose list holds every
\* violation (required, type, enum), and nothing was sent for it.
C5_EveryViolationListed ==
    (cur.valid # "unknown" /\ Violations(cur.tool, cur.args) # {}) =>
        /\ cur.outcome = "ValidationError"
        /\ Violations(cur.tool, cur.args) \subseteq Range(cur.errors)
        /\ cur.wired = 0

\* C7: in the window ending now no (user, tool) pair has more than RateLimit
\* calls that passed the rate check; a permitted call that finds RateLimit
\* calls of its own pair in the window fails RateLimited and sends nothing;
\* and a call is rate limited only by the calls of its own pair.
C7_RateLimitPerPair ==
    /\ \A pair \in Pairs : Cardinality(PassedInWindow(pair, now)) <= RateLimit
    /\ (cur.access # "unchecked" /\ checkToolAccess(cur.tool, cur.user)
            /\ cur.seen >= RateLimit) =>
          /\ cur.outcome = "RateLimited"
          /\ cur.wired = 0
          /\ cur.id \notin Range(wire)
    /\ (cur.access # "unchecked" /\ cur.seen < RateLimit) =>
          cur.access # "RateLimited"

\* the (RateLimit+1)-th call of a pair in one window was refused, after the
\* RateLimit calls before it were sent, while another pair was served
C7_Witness ==
    /\ cur.outcome = "RateLimited"
    /\ cur.seen = RateLimit
    /\ cur.wired = 0
    /\ Len(wire) = RateLimit

\* C9: the access step ends with the error of the first failing check, in the
\* order permission, rate limit, quota; a call denied on permission leaves the
\* rate-limit logs and the quota counters as they were, and a rate-limited
\* call leaves the quota counters as they were.
C9_FirstFailingCheckDecides ==
    [][(cur.pc = "access" /\ cur'.pc # "access") =>
        LET hasAccess == checkToolAccess(cur.tool, cur.user)
            isRateLimited == checkRateLimit(cur.tool, cur.user)
            hasQuota == checkResourceQuota(cur.tool, cur.user)
        IN  /\ ~hasAccess =>
                /\ cur'.outcome = "PermissionDenied"
                /\ rateLog' = rateLog
                /\ quotaUsed' = quotaUsed
            /\ (hasAccess /\ isRateLimited) =>
                /\ cur'.outcome = "RateLimited"
                /\ quotaUsed' = quotaUsed
            /\ (hasAccess /\ ~isRateLimited /\ ~hasQuota) =>
                cur'.outcome = "QuotaExceeded"
            /\ (hasAccess /\ ~isRateLimited /\ hasQuota) =>
                /\ cur'.outcome = "none"
                /\ cur'.pc = "dispatch"
      ]_vars

\* a call was refused as RateLimited although its quota was used up as well
C9_Witness ==
    /\ cur.access = "RateLimited"
    /\ quotaUsed[<<cur.user, cur.tool>>] >= QuotaLimit

C4_OneTransmissionPerTtl ==
    \A c \in Readers :
        (rd[c].pc # "idle" /\ rd[c].storedAt >= 0) =>
            /\ (rd[c].at - rd[c].storedAt < TTL) =>
                  (rd[c].hit /\ rd[c].wired = 0)
            /\ (rd[c].at - rd[c].storedAt > TTL) =>
                  (~rd[c].hit /\ rd[c].wired = 1)

\* one caller was served from the cache inside the TTL and another caller's
\* later read of the same uri, after the TTL, went to the wire
C4_Witness ==
    \E c1, c2 \in Readers :
        /\ rd[c1].uri = rd[c2].uri
        /\ rd[c1].hit /\ rd[c1].at > rd[c1].storedAt
        /\ rd[c1].at - rd[c1].storedAt < TTL
        /\ rd[c2].storedAt >= 0 /\ rd[c2].at - rd[c2].storedAt > TTL
        /\ rd[c2].wired = 1
        /\ Len(readWire) = 2

(***************************************************************************)
(* Properties of the message batcher.                                      *)
(***************************************************************************)
\* the calls of the coalescing window opened by message w
WindowCalls(w) == {m \in 1..msgsSent : w \in issuedIn[m]}

\* the transmissions made while the window of w was open
WindowTransmissions(w) == {i \in DOMAIN batchWire : w \in madeIn[i]}

\* C6: for a coalescing window that has ended and in which no more than
\* batchSize calls were made, exactly one transmission was made, it carries
\* exactly the calls of the window, each once, and a future that is resolved
\* holds the response that bears the id of its own message.
C6_OneTransmissionPerWindow ==
    /\ \A w \in fired :
          Cardinality(WindowCalls(w)) <= batchSize =>
            /\ Cardinality(WindowTransmissions(w)) = 1
            /\ \A i \in WindowTransmissions(w) :
                  /\ Range(batchWire[i]) = WindowCalls(w)
                  /\ Len(batchWire[i]) = Cardinality(WindowCalls(w))
    /\ \A m \in Msgs : resolved[m] \in {0, m}

(***************************************************************************)
(* Claims about the connection and the request table                       *)
(***************************************************************************)
StrictlyIncreasing(q) == \A i, j \in DOMAIN q : i < j => q[i] < q[j]

CallOutcomes == {"Success", "ErrorResponse", "Timeout", "ConnectionLost", "Cancelled"}

C1_ResolvedOnce ==
    \A r \in Reqs : call[r].whenReady =>
        /\ call[r].settles <= 1
        /\ (call[r].pc = "done") <=> (call[r].settles = 1)
        /\ call[r].pc = "done" => call[r].outcome \in CallOutcomes

C2_BudgetThenClosed ==
    /\ [](attemptsMade <= maxReconnectAttempts)
    /\ [](Closed => queue = <<>>)
    /\ []((Closed /\ handshake # "rejected") => attemptsMade = maxReconnectAttempts)
    /\ [][/\ (Degraded /\ state' # state /\ ~Ready'
                /\ attemptsMade = maxReconnectAttempts) => Closed'
          /\ (Degraded /\ Closed') =>
                \A r \in Range(queue) : call'[r].reqOutcome = "ConnectionLost"]_vars

C2_Witness ==
    /\ Closed
    /\ handshake # "rejected"
    /\ attemptsMade = maxReconnectAttempts
    /\ \E r \in Reqs : ~call[r].whenReady /\ call[r].reqOutcome = "ConnectionLost"

\* C3: on the return from Degraded to Ready the queued requests are sent in
\* the order in which they were queued, each once, and the connection is
\* Ready only after the queue has been flushed.
C3_QueueFlushedInOrder ==
    /\ [](StrictlyIncreasing(connWire))
    /\ [](Ready => queue = <<>>)
    /\ [][(Degraded /\ Ready') => connWire' = connWire \o queue]_vars

C3_Witness ==
    /\ Ready
    /\ \E i \in DOMAIN connWire : i < Len(connWire)
          /\ ~call[connWire[i]].whenReady /\ ~call[connWire[i + 1]].whenReady

(***************************************************************************)
(* Properties of the permission check.                                     *)
(***************************************************************************)
\* the capabilities granted to a subject: the tools with a permission entry
\* of which the subject holds every permission
AllowedCapabilities(userId) ==
    {t \in ToolNames :
        /\ Len(permissionMap(t)) > 0
        /\ \A i \in DOMAIN permissionMap(t) :
              permissionMap(t)[i] \in getUserPermissions(userId)}

\* C11: a call whose access was checked, for a tool that is not among the
\* caller's allowed capabilities, fails with PermissionDenied, also when no
\* permission entry is configured for the tool.
C11_AllowListDenies ==
    (cur.access # "unchecked" /\ cur.tool \notin AllowedCapabilities(cur.user))
        => cur.access = "PermissionDenied"


\* C12: the queue never holds more than QueueBound requests; a call issued
\* on a Degraded connection is queued, and stays unresolved, when the queue
\* is below the bound, and fails at once with Overloaded, the queue left as
\* it was, when the queue is full.
C12_QueueBounded ==
    /\ [](Len(queue) <= QueueBound)
    /\ [][(Degraded /\ issued' = issued + 1) =>
            IF Len(queue) < QueueBound
            THEN /\ queue' = Append(queue, issued')
                 /\ call'[issued'].pc = "awaiting"
            ELSE /\ queue' = queue
                 /\ call'[issued'].pc = "done"
                 /\ call'[issued'].outcome = "Overloaded"]_vars

C12_Witness ==
    /\ Degraded
    /\ Len(queue) = QueueBound
    /\ \E r \in Reqs : call[r].outcome = "Overloaded" /\ r \notin Range(queue)


C18_UnmatchedResponseDropped ==
    [][anomalies' # anomalies =>
        /\ anomalies' = anomalies + 1
        /\ lastDropped' \notin pending
        /\ UNCHANGED connVars]_vars

\* a response with an id never issued was dropped on a Ready connection with
\* a request outstanding
C18_Witness ==
    /\ lastDropped = 0
    /\ anomalies > 0
    /\ Ready
    /\ \E r \in pending : call[r].pc = "awaiting"


(***************************************************************************)
(* Claim about correlation ids                                             *)
(***************************************************************************)
\* C19: no two outstanding requests, caller requests, the handshake and
\* heartbeat probes included, bear the same id.
C19_UniqueIds ==
    \A i, j \in DOMAIN idTable : i # j => idTable[i] # idTable[j]


(***************************************************************************)
(* Claim about tool calls and caches                                       *)
(***************************************************************************)
\* C20: every call that passed validation and the access checks and left
\* the dispatch step was sent, once, under its own id, also when the same
\* call succeeded just before; tool calls leave the content cache empty.
C20_CallNeverCached ==
    /\ (cur.valid = "valid" /\ cur.access = "granted"
            /\ cur.pc \in {"awaiting", "done"}) =>
          /\ cur.wired = 1
          /\ Cardinality({i \in DOMAIN wire : wire[i] = cur.id}) = 1
    /\ \A k \in CacheKeys : ~contentCache[k].present

\* the call that has just been sent repeats the call that succeeded before it
C20_Witness ==
    /\ cur.repeat
    /\ cur.pc = "awaiting"
    /\ cur.wired = 1
    /\ Len(wire) = 2


(***************************************************************************)
(* Claim about the discovery cache                                         *)
(***************************************************************************)
\* C21: the first listTools call after a change signal is a miss that sends
\* a request, whatever the age of the cache, and a call served from the
\* cache is never given a list that was stored before the latest signal.
C21_SignalInvalidates ==
    \A c \in Listers :
        /\ (ls[c].pc # "idle" /\ ls[c].epoch > 0 /\ ls[c].first) =>
              (~ls[c].hit /\ ls[c].wired = 1)
        /\ ls[c].hit => ls[c].resultEpoch >= ls[c].epoch


C23_InFlightNotReplayed ==
    [][/\ \A r \in Reqs : Count(connWire', r) <= 1
       /\ (Degraded /\ Ready') =>
             \A r \in pending :
                /\ call'[r].req = "settled"
                /\ call'[r].reqOutcome = "ConnectionLost"
                /\ r \notin pending'
                /\ Count(connWire', r) = 1]_vars

C23_Witness ==
    /\ Ready
    /\ handshake = "accepted"
    /\ \E r, q \in Reqs :
        /\ call[r].whenReady /\ call[r].reqOutcome = "ConnectionLost"
        /\ Count(connWire, r) = 1
        /\ ~call[q].whenReady /\ q \in Range(connWire)


(***************************************************************************)
(* Claim about cancellation                                                *)
(***************************************************************************)
\* C24: a cancel or a timeout of one request resolves that request only: the
\* futures of the other requests and their pending entries stay as they are,
\* and once a caller's future is settled no response changes it, so the
\* response of an abandoned request reaches no caller.
C24_CancelOnlyThatRequest ==
    [][\A r \in Reqs :
          /\ (call[r].pc = "awaiting" /\ call'[r].outcome \in {"Cancelled", "Timeout"}) =>
                \A q \in Reqs \ {r} :
                    /\ call'[q] = call[q]
                    /\ q \in pending <=> q \in pending'
          /\ call[r].pc = "done" =>
                /\ call'[r].outcome = call[r].outcome
                /\ call'[r].settles = call[r].settles
          /\ (call[r].reqOutcome \in {"Cancelled", "Timeout"}) =>
                (r \notin pending' /\ call'[r] = call[r])]_vars

\* a transmitted request was cancelled and its response came and was dropped,
\* while another transmitted request got its own response
C24_Witness ==
    \E r, q \in Reqs :
        /\ r # q
        /\ call[r].outcome = "Cancelled"
        /\ r \in Range(connWire)
        /\ lastDropped = r
        /\ q \in Range(connWire)
        /\ call[q].outcome = "Success"


(***************************************************************************)
(* Claims about the edges of the connection state                          *)
(***************************************************************************)
\* C25: the state changes along the specified edges only: CONNECTING is
\* entered from DISCONNECTED by connect (or, inside a Degraded period, by a
\* scheduled reconnection), the connection becomes Ready only when the
\* handshake is accepted, DISCONNECTED is never entered again, and Closed is
\* terminal.
C25_OnlySpecifiedEdges ==
    [][/\ (state' = "CONNECTING" /\ state # "CONNECTING") =>
              state \in {"DISCONNECTED", "RECONNECTING"}
       /\ (Ready' /\ ~Ready) =>
              (state = "CONNECTING" /\ handshake = "sent" /\ handshake' = "accepted")
       /\ (state' = "DISCONNECTED") => state = "DISCONNECTED"
       /\ Closed => Closed']_vars


C27_SizeOrTime ==
    /\ \A i \in DOMAIN batchWire : Len(batchWire[i]) <= batchSize
    /\ Len(batch) < batchSize
    /\ batch # <<>> => Head(batch) \in timers
    /\ \A i \in DOMAIN batchWire :
          (0 < Len(batchWire[i]) /\ Len(batchWire[i]) < batchSize) =>
              Head(batchWire[i]) \in fired


\* C28: the results of executeBatch are in the order of the requests: result
\* i is the result of request i, failed or not and whatever the order of
\* completion, and there are as many results as requests.
C28_ResultsInRequestOrder ==
    /\ \A i \in DOMAIN results :
          /\ i \in DOMAIN requests
          /\ results[i].id = requests[i].id
          /\ results[i].success = requests[i].ok
    /\ xpc = "returned" => Len(results) = Len(requests)

\* two batches, with failures and successes, completed out of order
C28_Witness ==
    /\ xpc = "returned"
    /\ Len(requests) > toolBatchSize
    /\ \E i, j \in DOMAIN results : results[i].success /\ ~results[j].success
    /\ \E i \in DOMAIN completed : completed[i] # i


(***************************************************************************)
(* Claim about the keys of the caches                                      *)
(***************************************************************************)
\* C29: a value returned from a cache was stored for a request of the same
\* kind, name and parameters: a listTools call served from the cache gets
\* the list that was stored for its own cursor argument.
C29_CachedForSameRequest ==
    \A c \in Listers : ls[c].hit => ls[c].resultPage = ls[c].cursor


(***************************************************************************)
(* Claim about the sanitizers                                              *)
(***************************************************************************)
\* C30: a sanitized string holds none of the characters disallowed by the
\* default policy when it was sanitized as an argument or as content of the
\* default kind, and sanitizing a sanitized string returns it unchanged,
\* whichever sanitizer is used.
C30_SanitizedAndIdempotent ==
    sanPolicy # "none" =>
        /\ sanPolicy \in {"argument", "text/plain"} =>
              \A i \in DOMAIN sanOnce : sanOnce[i] \notin DisallowedChars
        /\ sanTwice = sanOnce

\* the two parts of C30 for the sanitizers of the default policy
C30_DefaultPolicy ==
    sanPolicy \in {"argument", "text/plain"} =>
        /\ \A i \in DOMAIN sanOnce : sanOnce[i] \notin DisallowedChars
        /\ sanTwice = sanOnce


(***************************************************************************)
(* Claims about failures and the caches                                    *)
(***************************************************************************)
\* C31: a failed read leaves the cache as it is, no entry is created and an
\* existing entry keeps its content and its expiry; the cache changes only in
\* the step in which a valid response is returned, and only in the entry of
\* that read.
C31_FailureLeavesCache ==
    [][/\ \A c \in Readers :
             (rd[c].pc = "awaiting" /\ rd'[c].pc = "done" /\ rd'[c].result = -1) =>
                 contentCache' = contentCache
       /\ contentCache' # contentCache =>
             \E c \in Readers :
                /\ rd[c].pc = "awaiting" /\ rd'[c].pc = "done" /\ rd'[c].result > 0
                /\ contentCache'[generateCacheKey("read", rd[c].uri)].content
                       = rd'[c].result
                /\ \A k \in CacheKeys \ {generateCacheKey("read", rd[c].uri)} :
                       contentCache'[k] = contentCache[k]]_vars

\* a read failed while the content of its uri was cached, and the entry is
\* still the one stored by the earlier read
C31_Witness ==
    \E c, d \in Readers :
        /\ c # d
        /\ rd[c].pc = "done" /\ rd[c].result = -1
        /\ rd[d].pc = "done" /\ rd[d].result > 0 /\ rd[d].uri = rd[c].uri
        /\ contentCache[generateCacheKey("read", rd[c].uri)].present
        /\ contentCache[generateCacheKey("read", rd[c].uri)].content = rd[d].result


C33_ConcurrentReadsCoalesce ==
    \A c, d \in Readers :
        (c # d /\ rd[c].pc = "awaiting" /\ rd[d].pc = "awaiting"
            /\ rd[c].uri = rd[d].uri) =>
                rd[c].wired + rd[d].wired = 1


\* C34: every transmission of MessageBatcher carries at least one message.
C34_NoEmptyBatch ==
    \A i \in DOMAIN batchWire : batchWire[i] # <<>>


\* C35: a listTools call with a cursor always sends its request, and a call
\* without a cursor that is served from the cache gets a list that a request
\* without a cursor brought, never the page of a call with a cursor.
C35_CacheHoldsCursorlessList ==
    \A c \in Listers :
        /\ (ls[c].pc # "idle" /\ ls[c].cursor # "undefined") =>
              (~ls[c].hit /\ ls[c].wired = 1)
        /\ (ls[c].hit /\ ls[c].cursor = "undefined") =>
              ls[c].resultPage = "undefined"


(***************************************************************************)
(* Claim about templates                                                   *)
(***************************************************************************)
\* C36: when renderPrompt or processTemplate has returned, the rendered text
\* is the template with every placeholder of a supplied key replaced by the
\* text inserted for its value, the inserted text left as it is; and when no
\* inserted text reads like a placeholder, the rendered text holds no
\* placeholder of a supplied key.
C36_RenderedLiterally ==
    tplPc = "returned" =>
        /\ tplRendered = substituted(tplKind, tplTemplate, tplParams)
        /\ (\A i, j \in DOMAIN tplParams :
                FirstAt(inserted(tplKind, tplParams[i].value), 1,
                        placeholder(tplKind, tplParams[j].key)) = 0) =>
              \A j \in DOMAIN tplParams :
                  FirstAt(tplRendered, 1, placeholder(tplKind, tplParams[j].key)) = 0


(***************************************************************************)
(* Claims about the structured-input-form extension                        *)
(***************************************************************************)
\* C37: at most one webview panel exists: the variable panel is null exactly
\* when no panel exists and names the one panel otherwise, showInputForm
\* creates a panel only when none exists, and after the panel is disposed the
\* next showInputForm creates a new one.
C37_AtMostOnePanel ==
    /\ [](Cardinality(panels) <= 1)
    /\ [](panel = 0 <=> panels = {})
    /\ [](panel # 0 => panels = {panel})
    /\ [][panelsCreated' # panelsCreated =>
             (panels = {} /\ commandsRun' = commandsRun + 1
                 /\ panels' = {panelsCreated'})]_vars
    /\ [][(commandsRun' # commandsRun /\ panels # {}) => panels' = panels]_vars

\* a panel was disposed and a later run of the command made a new one; one
\* more run found a panel and revealed it
C37_Witness ==
    /\ panelsCreated = 2
    /\ panels = {2}
    /\ panel = 2
    /\ commandsRun >= 3


\* C38: every trigger the listener detects comes from typed text, the three
\* characters it asks to delete are "/29" and their range starts at a column
\* that is not negative, and showInputForm is called once for each trigger.
C38_TriggerExact ==
    /\ \A i \in DOMAIN triggerLog :
           triggerLog[i].requested =>
               /\ triggerLog[i].cause = "typed"
               /\ triggerLog[i].start >= 0
               /\ triggerLog[i].text = Trigger
    /\ commandsRun + pendingCmd + Len(edits)
           = Cardinality({i \in DOMAIN triggerLog : triggerLog[i].requested})


====
